---------------------------- MODULE Spec2Model ----------------------------
(***************************************************************************)
(* A model of the mqtt_dali controller: the configuration model            *)
(* (config_payload.rs, setup.rs), the DALI manager (dali_manager.rs), the  *)
(* two bus transports (dali_atx.rs, dali_emulator.rs) and the MQTT command *)
(* dispatcher (mqtt.rs).                                                   *)
(*                                                                         *)
(* One action models one whole command handler of MqttDali::run_session,   *)
(* from the arrival of the payload to the last publication it causes.      *)
(* The handlers are operators over a transport record t (the bus side) and *)
(* the configuration; they are evaluated as the code runs them, one bus    *)
(* transaction after the other, with the code's retry loops.               *)
(***************************************************************************)
EXTENDS Integers, Sequences, FiniteSets, TLC

VARIABLES
    transport,  \* which DaliController was built in main: "atx" | "emulator"
    overflow_checks, \* whether the build panics on arithmetic overflow
    buses,      \* dali_config.buses: the in-memory configuration model
    lights,     \* the emulator's ballasts, per bus (<< >> for the ATX hat)
    retained,   \* the last payload published on the retained Config topic
    saved,      \* the buses stored in the configuration file
    session,    \* where MqttDali::run is: "connecting", "running", "aborted", "hung"
    handled,    \* payloads taken from the command topic so far
    last        \* what the last payload on the command topic caused

vars == <<transport, overflow_checks, buses, lights, retained, saved, session, handled, last>>

---------------------------------------------------------------------------
(* Bounds of the model.                                                    *)

\* The ATX replies of one command are `first` for the first n transactions
\* and `rest` from then on; n ranges over 0 .. MaxFirst.
MaxFirst == 1
\* Ballasts on an emulated bus ("Number of lights to emulate").
NumLights == 2
\* Payloads on the command topic in one run of the program.
MaxCommands == 2
\* The emulator's RANDOMISE draws range over 1 .. MaxRandom.
MaxRandom == 2

---------------------------------------------------------------------------
(* Program constants.                                                      *)

\* The number of DALI buses: the "zz" of the hat's Vxxyyzz reply.
bus_count == 1

\* dali_commands.rs is not part of the sources at hand; the codes are those
\* of IEC 62386, which the specification names as their origin.  A code
\* with bit 0x100 set is a special command: its low byte is the first byte
\* of the frame.
DALI_ADD_TO_GROUP0 == 96
DALI_REMOVE_FROM_GROUP0 == 112
DALI_SET_FADE_TIME == 46
DALI_SET_EXTENDED_FADE_TIME == 48
DALI_SET_SHORT_ADDRESS == 128
DALI_QUERY_STATUS == 144
DALI_QUERY_GROUPS_0_7 == 192
DALI_QUERY_GROUPS_8_15 == 193
DALI_TERMINATE == 417
DALI_DATA_TRANSFER_REGISTER0 == 419
DALI_INITIALISE == 421
DALI_RANDOMISE == 423
DALI_COMPARE == 425
DALI_WITHDRAW == 427
DALI_SEARCHADDRH == 433
DALI_SEARCHADDRM == 435
DALI_SEARCHADDRL == 437
DALI_PROGRAM_SHORT_ADDRESS == 439

\* Retry counts of the manager's loops.
GetByteRetries == 4
CollisionRetries == 300
AddRetries == 8
RemoveRetries == 3
CompareRetries == 2

---------------------------------------------------------------------------
(* DaliBusResult, and the Err of a transport call.                         *)

RNone == [k |-> "None", v |-> 0]
ReceiveCollision == [k |-> "ReceiveCollision", v |-> 0]
TransmitCollision == [k |-> "TransmitCollision", v |-> 0]
Value8(b) == [k |-> "Value8", v |-> b]
TransportErr == [k |-> "Err", v |-> 0]
TransportPanic == [k |-> "Panic", v |-> 0]

\* Descriptions: format!("{prefix}{n}") or a name given by a client (n = -1).
Desc(p, n) == [p |-> p, n |-> n]
Name(s) == [p |-> s, n |-> -1]

\* Results of the manager's and the dispatcher's operations: Ok(v) or
\* Err(e), with the transport as the operation left it.  e = "panic" is a
\* panic unwinding through the caller, e = "hang" a loop that never ends.
Ok(t, v) == [t |-> t, ok |-> TRUE, e |-> "", v |-> v]
Fail(t, e) == [t |-> t, ok |-> FALSE, e |-> e, v |-> RNone]

\* u8 / u16 bit tests
BitSet(mask, g) == (mask \div (2 ^ g)) % 2 = 1
SetBit(mask, g) == IF BitSet(mask, g) THEN mask ELSE mask + 2 ^ g
ClearBit(mask, g) == IF BitSet(mask, g) THEN mask - 2 ^ g ELSE mask

---------------------------------------------------------------------------
(* dali_emulator.rs: one emulated ballast.  An Option<u8> reply is -1 for  *)
(* None and the byte for Some.                                             *)

NoShortAddress == 255

DaliLightEmulator_new ==
    [initialize_mode |-> FALSE, brightness |-> 0, short_address |-> NoShortAddress,
     search_address |-> 0, random_address |-> 4095, enable_compare |-> FALSE,
     selected |-> FALSE, group_mask |-> 0, dtr |-> 0]

DaliLightEmulator_new_with_config(short_address, group_mask) ==
    [DaliLightEmulator_new EXCEPT !.short_address = short_address,
                                  !.group_mask = group_mask]

is_special_command(b1) == (160 <= b1 /\ b1 <= 203) \/ (204 <= b1 /\ b1 <= 251)

Light_set_short_address(l) ==
    IF l.dtr < 63 THEN [l EXCEPT !.short_address = l.dtr] ELSE l

Light_set_brightness(l, level) == [l EXCEPT !.brightness = level]

Light_add_to_group(l, group_number) ==
    [l EXCEPT !.group_mask = SetBit(l.group_mask, group_number)]

\* remove_from_group if it left the mask alone.
Light_remove_from_group_kept(l, group_number) == l

Light_remove_from_group(l, group_number) ==
    [l EXCEPT !.group_mask = ClearBit(l.group_mask, group_number)]

Light_start_initialize_mode(l, parameter) ==
    IF \/ (parameter = 255 /\ l.short_address = NoShortAddress)
       \/ parameter = 0
       \/ (parameter % 2 = 1 /\ parameter \div 2 = l.short_address)
    THEN [l EXCEPT !.initialize_mode = TRUE, !.enable_compare = TRUE, !.selected = FALSE]
    ELSE l

Light_terminate_initialize_mode(l) ==
    [l EXCEPT !.initialize_mode = FALSE, !.enable_compare = FALSE]

\* rng.gen_range(0..=0x0fff): the draw is an input of the command, rnd.
Light_randomize(l, rnd) == [l EXCEPT !.random_address = rnd]

\* The light after a COMPARE; its reply is Light_compare_reply.
Light_compare(l) ==
    IF l.enable_compare
    THEN [l EXCEPT !.selected = (l.random_address = l.search_address)]
    ELSE l

Light_compare_reply(l) ==
    IF l.enable_compare /\ l.random_address <= l.search_address THEN 255 ELSE -1

Light_withdraw(l) == IF l.selected THEN [l EXCEPT !.enable_compare = FALSE] ELSE l

Light_set_search_address_low(l, value) ==
    [l EXCEPT !.search_address = (l.search_address \div 256) * 256 + value]

Light_set_search_address_middle(l, value) ==
    [l EXCEPT !.search_address =
        (l.search_address \div 65536) * 65536 + value * 256 + (l.search_address % 256)]

Light_set_search_address_high(l, value) ==
    [l EXCEPT !.search_address = value * 65536 + (l.search_address % 65536)]

Light_program_short_address(l, short_address) ==
    IF l.selected THEN [l EXCEPT !.short_address = short_address] ELSE l

\* DaliLightEmulator::command: the light after the command.
Light_command(l, command, parameter, rnd) ==
    CASE DALI_ADD_TO_GROUP0 <= command /\ command <= DALI_ADD_TO_GROUP0 + 15 ->
            Light_add_to_group(l, command - DALI_ADD_TO_GROUP0)
      [] DALI_REMOVE_FROM_GROUP0 <= command /\ command <= DALI_REMOVE_FROM_GROUP0 + 15 ->
            Light_remove_from_group(l, command - DALI_REMOVE_FROM_GROUP0)
      [] command = DALI_SET_SHORT_ADDRESS -> Light_set_short_address(l)
      [] command = DALI_TERMINATE -> Light_terminate_initialize_mode(l)
      [] command = DALI_DATA_TRANSFER_REGISTER0 -> [l EXCEPT !.dtr = parameter]
      [] command = DALI_INITIALISE -> Light_start_initialize_mode(l, parameter)
      [] command = DALI_RANDOMISE -> Light_randomize(l, rnd)
      [] command = DALI_COMPARE -> Light_compare(l)
      [] command = DALI_WITHDRAW -> Light_withdraw(l)
      [] command = DALI_SEARCHADDRH -> Light_set_search_address_high(l, parameter)
      [] command = DALI_SEARCHADDRM -> Light_set_search_address_middle(l, parameter)
      [] command = DALI_SEARCHADDRL -> Light_set_search_address_low(l, parameter)
      [] command = DALI_PROGRAM_SHORT_ADDRESS -> Light_program_short_address(l, parameter)
      [] OTHER -> l     \* "Unsupported command": the queries among them

\* DaliLightEmulator::command: its reply.  Only COMPARE returns one.
Light_command_reply(l, command) ==
    IF command = DALI_COMPARE THEN Light_compare_reply(l) ELSE -1

\* Whether a frame with first byte b1 is for this light (short address,
\* group or broadcast), as both arms of receive_2_bytes decide it.
Light_addressed(l, b1) ==
    IF b1 < 128 THEN b1 \div 2 = l.short_address
    ELSE IF b1 \div 32 = 4 THEN BitSet(l.group_mask, (b1 \div 2) % 16)
    ELSE TRUE

\* DaliLightEmulator::receive_2_bytes: [l |-> the light after, r |-> reply].
receive_2_bytes(l, b1, b2, rnd) ==
    IF b1 % 2 = 0 /\ ~is_special_command(b1)
    THEN [l |-> IF Light_addressed(l, b1) THEN Light_set_brightness(l, b2) ELSE l,
          r |-> -1]
    ELSE LET special == is_special_command(b1)
             command == IF special THEN 256 + b1 ELSE b2
             my_command == special \/ Light_addressed(l, b1)
         IN  IF my_command
             THEN [l |-> Light_command(l, command, b2, rnd),
                   r |-> Light_command_reply(l, command)]
             ELSE [l |-> l, r |-> -1]

\* DaliBusEmulator::send_2_bytes: every light receives the frame; the
\* replies aggregate None -> Value8 -> ReceiveCollision.
RECURSIVE Bus_send_2_bytes(_, _, _, _, _, _)
Bus_send_2_bytes(ls, i, b1, b2, rnd, result) ==
    IF i > Len(ls) THEN [ls |-> ls, r |-> result]
    ELSE LET received(got) ==
                 Bus_send_2_bytes([ls EXCEPT ![i] = got.l], i + 1, b1, b2, rnd,
                     IF got.r = -1 THEN result
                     ELSE IF result.k = "None" THEN Value8(got.r)
                     ELSE IF result.k = "Value8" THEN ReceiveCollision
                     ELSE result)
         IN  received(receive_2_bytes(ls[i], b1, b2, rnd[i]))

---------------------------------------------------------------------------
(* The DaliController trait over the transport record                      *)
(*   t = [kind, lights, oracle, status, rnd, ovf, log, frames, twice]      *)
(* kind: "atx" | "emulator"; lights: the emulator's ballasts per bus;      *)
(* oracle = [n, first, rest]: what the ATX hat answers; status: what it    *)
(* answers to the 'd' command, per bus; rnd: the emulator's RANDOMISE      *)
(* draws; ovf: what an overflowing shift does in this build; log: what the *)
(* program has asked of the transport so far, in order: "status" for a bus *)
(* status query, "frame" for a DALI frame, "error" for a transaction that  *)
(* returned Err (a run of equal entries is kept as one); frames: the DALI  *)
(* frames sent so far with what came back, each <<b1, b2, reply>>; twice:  *)
(* the positions of the frames sent with send_2_bytes_repeat.              *)

Logged(log, x) == IF log # << >> /\ log[Len(log)] = x THEN log ELSE Append(log, x)

\* DaliAtx::send_2_bytes / receive_reply: one reply line per transaction.
DaliAtx_send_2_bytes(t, bus, b1, b2) ==
    LET reply == IF t.oracle.n > 0 THEN t.oracle.first ELSE t.oracle.rest
        t1 == [t EXCEPT !.log = Logged(@, "frame"),
                        !.frames = Append(@, <<b1, b2, reply>>),
                        !.oracle.n = IF @ > 0 THEN @ - 1 ELSE 0]
    IN  IF reply.k = "Err"
        THEN Fail([t1 EXCEPT !.log = Logged(@, "error")], "Transport")
        ELSE Ok(t1, reply)

\* DaliControllerEmulator::send_2_bytes
Emulator_send_2_bytes(t, bus, b1, b2) ==
    IF bus >= Len(t.lights) THEN Fail(t, "panic")
    ELSE LET sent(got) ==
                 Ok([t EXCEPT !.log = Logged(@, "frame"),
                              !.frames = Append(@, <<b1, b2, got.r>>),
                              !.lights[bus + 1] = got.ls], got.r)
         IN  sent(Bus_send_2_bytes(t.lights[bus + 1], 1, b1, b2, t.rnd, RNone))

send_2_bytes(t, bus, b1, b2) ==
    IF t.kind = "emulator" THEN Emulator_send_2_bytes(t, bus, b1, b2)
    ELSE DaliAtx_send_2_bytes(t, bus, b1, b2)

\* Both controllers send a repeated frame as they send a single one (the
\* hat with its 't' command); `twice` keeps which frames were sent so.
send_2_bytes_repeat(t, bus, b1, b2) ==
    LET sent(result) ==
            IF Len(result.t.frames) > Len(t.frames)
            THEN [result EXCEPT !.t.twice = @ \cup {Len(result.t.frames)}]
            ELSE result
    IN  sent(send_2_bytes(t, bus, b1, b2))

\* DaliAtx::get_bus_status: the high nibble of the reply to 'd'.
DaliAtx_get_bus_status(t, bus) ==
    LET bus_result == t.status[bus + 1]
        t1 == [t EXCEPT !.log = Logged(@, "status")]
        failed == Fail([t1 EXCEPT !.log = Logged(@, "error")], "Transport")
    IN  IF bus_result.k # "Value8" THEN failed
        ELSE CASE bus_result.v \div 16 = 0 -> Ok(t1, "NoPower")
               [] bus_result.v \div 16 = 1 -> Ok(t1, "Overloaded")
               [] bus_result.v \div 16 = 2 -> Ok(t1, "Active")
               [] OTHER -> failed

get_bus_status(t, bus) ==
    IF t.kind = "emulator" THEN Ok([t EXCEPT !.log = Logged(@, "status")], "Active")
    ELSE DaliAtx_get_bus_status(t, bus)

\* Every reply of the transport from now on is the same.
RepliesSettled(t) == t.kind = "atx" /\ t.oracle.n = 0

---------------------------------------------------------------------------
(* dali_manager.rs: DaliManager                                            *)

set_light_brightness_async(t, bus, short_address, value) ==
    IF short_address < 64                       \* to_light_short_address
    THEN send_2_bytes(t, bus, short_address * 2, value)
    ELSE Fail(t, "panic")

set_group_brightness_async(t, bus, group, value) ==
    IF group < 16                               \* to_light_group_address
    THEN send_2_bytes(t, bus, 128 + group * 2, value)
    ELSE Fail(t, "panic")

send_command_to_address(t, bus, command, short_address, repeat) ==
    IF command > 255 THEN Fail(t, "Command")
    ELSE IF short_address >= 64 THEN Fail(t, "ShortAddress")
    ELSE IF repeat THEN send_2_bytes_repeat(t, bus, short_address * 2 + 1, command % 256)
    ELSE send_2_bytes(t, bus, short_address * 2 + 1, command % 256)

send_command_to_group(t, bus, command, group_address, repeat) ==
    IF command > 255 THEN Fail(t, "Command")
    ELSE IF group_address >= 64 THEN Fail(t, "GroupAddress")
    ELSE IF group_address >= 16 THEN Fail(t, "panic")   \* to_command_group_address
    ELSE IF repeat THEN send_2_bytes_repeat(t, bus, 128 + group_address * 2 + 1, command % 256)
    ELSE send_2_bytes(t, bus, 128 + group_address * 2 + 1, command % 256)

RECURSIVE get_byte_loop(_, _, _, _, _, _)
get_byte_loop(t, bus, command, short_address, repeat, retry_count) ==
    LET matched(result) ==
            IF ~result.ok THEN result
            ELSE IF result.v.k = "Value8" THEN Ok(result.t, result.v.v)
            ELSE IF retry_count - 1 = 0 THEN Fail(result.t, "NoResult")
            ELSE get_byte_loop(result.t, bus, command, short_address, repeat, retry_count - 1)
    IN  matched(send_command_to_address(t, bus, command, short_address, repeat))

\* send_command_to_address_and_get_byte if it gave up after two replies.
send_command_to_address_and_get_byte_twice(t, bus, command, short_address, repeat) ==
    get_byte_loop(t, bus, command, short_address, repeat, 2)

send_command_to_address_and_get_byte(t, bus, command, short_address, repeat) ==
    get_byte_loop(t, bus, command, short_address, repeat, GetByteRetries)

\* is_collision if it knew the receive collision only.
is_collision_received(result) == result.k = "ReceiveCollision"

is_collision(result) == result.k \in {"ReceiveCollision", "TransmitCollision"}

\* broadcast_command's loop.  Once the replies are settled every further
\* attempt collides as this one did and leaves the transport as it is, so
\* the loop ends in its error after CollisionRetries more collisions: the
\* model takes that step at once.
RECURSIVE broadcast_loop(_, _, _, _, _, _)
broadcast_loop(t, bus, b1, b2, repeat, collision_count) ==
    LET matched(result) ==
            IF ~result.ok THEN result
            ELSE IF ~is_collision(result.v) THEN result
            ELSE IF collision_count + 1 > CollisionRetries \/ RepliesSettled(t)
                 THEN Fail(result.t, "UnexpectedStatus")
            ELSE broadcast_loop(result.t, bus, b1, b2, repeat, collision_count + 1)
    IN  matched(IF repeat THEN send_2_bytes_repeat(t, bus, b1, b2)
                ELSE send_2_bytes(t, bus, b1, b2))

\* The two bytes of a broadcast: a special command carries its parameter.
broadcast_b1(command) == IF command >= 256 THEN command % 256 ELSE 255
broadcast_b2(command, parameter) == IF command >= 256 THEN parameter ELSE command % 256

broadcast_command(t, bus, command, parameter, repeat) ==
    broadcast_loop(t, bus, broadcast_b1(command), broadcast_b2(command, parameter),
                   repeat, 0)

broadcast_command_allow_collision(t, bus, command, parameter, repeat) ==
    IF repeat
    THEN send_2_bytes_repeat(t, bus, broadcast_b1(command), broadcast_b2(command, parameter))
    ELSE send_2_bytes(t, bus, broadcast_b1(command), broadcast_b2(command, parameter))

\* program_short_address's loop { WITHDRAW; break on None }
RECURSIVE withdraw_loop(_, _)
withdraw_loop(t, bus) ==
    LET matched(status) ==
            IF ~status.ok THEN status
            ELSE IF status.v.k = "None" THEN Ok(status.t, RNone)
            ELSE IF RepliesSettled(t) THEN Fail(status.t, "hang")
            ELSE withdraw_loop(status.t, bus)
    IN  matched(broadcast_command(t, bus, DALI_WITHDRAW, 0, FALSE))

program_short_address(t, bus, short_address) ==
    IF short_address >= 64 THEN Fail(t, "panic")
    ELSE LET programmed(r) == IF ~r.ok THEN r ELSE withdraw_loop(r.t, bus)
         IN  programmed(broadcast_command(t, bus, DALI_PROGRAM_SHORT_ADDRESS,
                                          short_address * 2 + 1, FALSE))

set_dtr(t, bus, value) ==
    broadcast_command(t, bus, DALI_DATA_TRANSFER_REGISTER0, value, FALSE)

\* set_light_fade_time if it left the extended fade time alone.
set_light_fade_time_plain(t, bus, short_address, fade_time) ==
    IF short_address >= 64 THEN Fail(t, "ShortAddress")
    ELSE IF fade_time > 15 THEN Fail(t, "FadeTime")
    ELSE LET timed(r) == IF ~r.ok THEN r ELSE Ok(r.t, RNone)
             registered(r) ==
                 IF ~r.ok THEN r
                 ELSE timed(send_command_to_address(r.t, bus, DALI_SET_FADE_TIME,
                                                    short_address, TRUE))
         IN  registered(set_dtr(t, bus, fade_time))

set_light_fade_time(t, bus, short_address, fade_time) ==
    IF short_address >= 64 THEN Fail(t, "ShortAddress")
    ELSE IF fade_time > 15 THEN Fail(t, "FadeTime")
    ELSE LET extended(r) == IF ~r.ok THEN r ELSE Ok(r.t, RNone)
             timed(r) ==
                 IF ~r.ok THEN r
                 ELSE IF fade_time = 0
                      THEN extended(send_command_to_address(
                               r.t, bus, DALI_SET_EXTENDED_FADE_TIME, short_address, TRUE))
                 ELSE Ok(r.t, RNone)
             registered(r) ==
                 IF ~r.ok THEN r
                 ELSE timed(send_command_to_address(r.t, bus, DALI_SET_FADE_TIME,
                                                    short_address, TRUE))
         IN  registered(set_dtr(t, bus, fade_time))

set_group_fade_time(t, bus, group_address, fade_time) ==
    IF group_address >= 16 THEN Fail(t, "GroupAddress")
    ELSE IF fade_time > 15 THEN Fail(t, "FadeTime")
    ELSE LET extended(r) == IF ~r.ok THEN r ELSE Ok(r.t, RNone)
             timed(r) ==
                 IF ~r.ok THEN r
                 ELSE IF fade_time = 0
                      THEN extended(send_command_to_group(
                               r.t, bus, DALI_SET_EXTENDED_FADE_TIME, group_address, TRUE))
                 ELSE Ok(r.t, RNone)
             registered(r) ==
                 IF ~r.ok THEN r
                 ELSE timed(send_command_to_group(r.t, bus, DALI_SET_FADE_TIME,
                                                  group_address, TRUE))
         IN  registered(set_dtr(t, bus, fade_time))

query_group_membership(t, bus, short_address) ==
    LET combined(groups_0to7, groups_8to15) ==
            IF ~groups_8to15.ok THEN groups_8to15
            ELSE Ok(groups_8to15.t, groups_8to15.v * 256 + groups_0to7.v)
        queried(groups_0to7) ==
            IF ~groups_0to7.ok THEN groups_0to7
            ELSE combined(groups_0to7,
                     send_command_to_address_and_get_byte(
                         groups_0to7.t, bus, DALI_QUERY_GROUPS_8_15, short_address, FALSE))
    IN  queried(send_command_to_address_and_get_byte(
                    t, bus, DALI_QUERY_GROUPS_0_7, short_address, FALSE))

\* (1 << group_address) & membership_mask != 0 on a u16: a shift by 16 or
\* more panics in a build with overflow checks and wraps in one without.
is_group_member(t, bus, short_address, group_address) ==
    LET tested(membership_mask) ==
            IF ~membership_mask.ok THEN membership_mask
            ELSE IF group_address >= 16 /\ t.ovf = "panic"
                 THEN Fail(membership_mask.t, "panic")
            ELSE Ok(membership_mask.t, BitSet(membership_mask.v, group_address % 16))
    IN  tested(query_group_membership(t, bus, short_address))

DaliManager_remove_from_group(t, bus, group_address, short_address) ==
    send_command_to_address(t, bus, DALI_REMOVE_FROM_GROUP0 + group_address,
                            short_address, TRUE)

RECURSIVE remove_verify_loop(_, _, _, _, _)
remove_verify_loop(t, bus, group_address, short_address, retry_count) ==
    LET verified(member) ==
            IF ~member.ok THEN member
            ELSE IF ~member.v THEN Ok(member.t, RNone)
            ELSE IF retry_count - 1 = 0 THEN Fail(member.t, "GroupRemoveFailed")
            ELSE remove_verify_loop(member.t, bus, group_address, short_address,
                                    retry_count - 1)
        removed(sent) ==
            IF ~sent.ok THEN sent
            ELSE verified(is_group_member(sent.t, bus, short_address, group_address))
    IN  removed(DaliManager_remove_from_group(t, bus, group_address, short_address))

remove_from_group_and_verify(t, bus, group_address, short_address) ==
    remove_verify_loop(t, bus, group_address, short_address, RemoveRetries)

DaliManager_add_to_group(t, bus, group_address, short_address) ==
    send_command_to_address(t, bus, DALI_ADD_TO_GROUP0 + group_address,
                            short_address, TRUE)

RECURSIVE add_verify_loop(_, _, _, _, _)
add_verify_loop(t, bus, group_address, short_address, retry_count) ==
    LET verified(member) ==
            IF ~member.ok THEN member
            ELSE IF member.v THEN Ok(member.t, RNone)
            ELSE IF retry_count - 1 = 0 THEN Fail(member.t, "GroupAddFailed")
            ELSE add_verify_loop(member.t, bus, group_address, short_address,
                                 retry_count - 1)
        added(sent) ==
            IF ~sent.ok THEN sent
            ELSE verified(is_group_member(sent.t, bus, short_address, group_address))
    IN  added(DaliManager_add_to_group(t, bus, group_address, short_address))

\* add_to_group_and_verify if it gave up after the first attempt.
add_to_group_and_verify_once(t, bus, group_address, short_address) ==
    add_verify_loop(t, bus, group_address, short_address, 1)

add_to_group_and_verify(t, bus, group_address, short_address) ==
    add_verify_loop(t, bus, group_address, short_address, AddRetries)

\* DaliManager::query_light_status if it took a transaction without a reply
\* byte for a status of 0.
DaliManager_query_light_status_lenient(t, bus, short_address) ==
    LET matched(r) ==
            IF ~r.ok THEN r
            ELSE IF r.v.k = "Value8" THEN Ok(r.t, r.v.v)
            ELSE Ok(r.t, 0)
    IN  matched(send_command_to_address(t, bus, DALI_QUERY_STATUS, short_address, FALSE))

DaliManager_query_light_status(t, bus, short_address) ==
    LET matched(r) ==
            IF ~r.ok THEN r
            ELSE IF r.v.k = "Value8" THEN Ok(r.t, r.v.v)
            ELSE Fail(r.t, "UnexpectedStatus")
    IN  matched(send_command_to_address(t, bus, DALI_QUERY_STATUS, short_address, FALSE))

---------------------------------------------------------------------------
(* config_payload.rs, setup.rs: the configuration model.  A bus is         *)
(*   [bus, status, description, channels, groups],                          *)
(* a channel [description, short_address], a group [description,           *)
(* group_address, members]; the three lists are Vecs, in insertion order.  *)

Channel(description, short_address) ==
    [description |-> description, short_address |-> short_address]

Group(description, group_address, members) ==
    [description |-> description, group_address |-> group_address, members |-> members]

BusConfig_new(bus_number, status) ==
    [bus |-> bus_number, status |-> status, description |-> Desc("Bus-", bus_number + 1),
     channels |-> << >>, groups |-> << >>]

\* Vec::remove(index)
RemoveAt(s, i) == SubSeq(s, 1, i - 1) \o SubSeq(s, i + 1, Len(s))

\* iter().position(..) + 1, 0 for None
get_channel_index(b, short_address) ==
    IF \E i \in 1..Len(b.channels) : b.channels[i].short_address = short_address
    THEN CHOOSE i \in 1..Len(b.channels) :
            /\ b.channels[i].short_address = short_address
            /\ \A j \in 1..(i - 1) : b.channels[j].short_address # short_address
    ELSE 0

get_group_index(b, group_address) ==
    IF \E i \in 1..Len(b.groups) : b.groups[i].group_address = group_address
    THEN CHOOSE i \in 1..Len(b.groups) :
            /\ b.groups[i].group_address = group_address
            /\ \A j \in 1..(i - 1) : b.groups[j].group_address # group_address
    ELSE 0

\* members.iter().position(..) if it never found the address.
member_index_missing(members, short_address) == 0

member_index(members, short_address) ==
    IF \E i \in 1..Len(members) : members[i] = short_address
    THEN CHOOSE i \in 1..Len(members) :
            /\ members[i] = short_address
            /\ \A j \in 1..(i - 1) : members[j] # short_address
    ELSE 0

remove_channel(b, short_address) ==
    LET index == get_channel_index(b, short_address)
    IN  IF index # 0 THEN [b EXCEPT !.channels = RemoveAt(@, index)] ELSE b

BusConfig_remove_from_group(b, group_address, short_address) ==
    LET gi == get_group_index(b, group_address)
        index == member_index(b.groups[gi].members, short_address)
    IN  IF gi # 0 /\ index # 0
        THEN [b EXCEPT !.groups[gi].members = RemoveAt(@, index)]
        ELSE b

\* Results of the operations that also work on a bus configuration or on
\* the commissioning iterator: s is that object as the operation left it.
OkS(t, s, v) == [t |-> t, ok |-> TRUE, e |-> "", v |-> v, s |-> s]
FailS(t, s, e) == [t |-> t, ok |-> FALSE, e |-> e, v |-> RNone, s |-> s]

---------------------------------------------------------------------------
(* dali_manager.rs: the operations on a bus configuration                  *)

change_short_address(t, bus_config, existing_address, new_address) ==
    IF existing_address >= 64 THEN FailS(t, bus_config, "panic")
    ELSE IF new_address >= 64 /\ new_address # 255 THEN FailS(t, bus_config, "panic")
    ELSE LET described(index) ==
                 IF index # 0 THEN bus_config.channels[index].description
                 ELSE Desc("Light ", new_address)
             changed(set) ==
                 IF ~set.ok THEN FailS(set.t, bus_config, set.e)
                 ELSE IF new_address # 255
                      THEN OkS(set.t,
                               [remove_channel(bus_config, existing_address) EXCEPT
                                   !.channels = Append(@,
                                       Channel(described(get_channel_index(bus_config,
                                                             existing_address)),
                                               new_address))],
                               RNone)
                 ELSE OkS(set.t, remove_channel(bus_config, existing_address), RNone)
             loaded(dtr) ==
                 IF ~dtr.ok THEN FailS(dtr.t, bus_config, dtr.e)
                 ELSE changed(send_command_to_address(dtr.t, bus_config.bus,
                                  DALI_SET_SHORT_ADDRESS, existing_address, TRUE))
         IN  loaded(set_dtr(t, bus_config.bus, new_address))

\* remove_short_address's for group_address in 0..16
RECURSIVE remove_groups_loop(_, _, _, _, _)
remove_groups_loop(t, bus_config, existing_address, groups, group_address) ==
    IF group_address >= 16 THEN OkS(t, bus_config, RNone)
    ELSE IF BitSet(groups, group_address)
    THEN LET removed(r) ==
                 IF ~r.ok THEN FailS(r.t, bus_config, r.e)
                 ELSE remove_groups_loop(r.t,
                          BusConfig_remove_from_group(bus_config, group_address,
                                                      existing_address),
                          existing_address, groups, group_address + 1)
         IN  removed(DaliManager_remove_from_group(t, bus_config.bus, group_address,
                                                   existing_address))
    ELSE remove_groups_loop(t, bus_config, existing_address, groups, group_address + 1)

DaliManager_remove_short_address(t, bus_config, existing_address) ==
    LET left(removed) ==
            IF ~removed.ok THEN removed
            ELSE change_short_address(removed.t, removed.s, existing_address, 255)
        queried(groups) ==
            IF ~groups.ok THEN FailS(groups.t, bus_config, groups.e)
            ELSE left(remove_groups_loop(groups.t, bus_config, existing_address,
                                         groups.v, 0))
    IN  queried(query_group_membership(t, bus_config.bus, existing_address))

\* regex::Regex::new(pattern) and is_match(description) for the patterns the
\* model sends: "Light" and "Light 0" are literals found anywhere in the
\* description, "X" likewise, "(" does not compile.
RegexCompiles(pattern) == pattern # "("

is_match(pattern, description) ==
    CASE pattern = "Light" -> description.p = "Light "
      [] pattern = "Light 0" -> description.p = "Light " /\ description.n = 0
      [] pattern = "X" -> description.p = "X"
      [] OTHER -> FALSE

\* match_loop if it listed a light before the ballast confirmed.
RECURSIVE match_loop_unverified(_, _, _, _, _)
match_loop_unverified(t, bus_config, gi, pattern, i) ==
    IF i > Len(bus_config.channels) THEN OkS(t, bus_config, RNone)
    ELSE LET light == bus_config.channels[i]
             group == bus_config.groups[gi]
             added(r) ==
                 IF ~r.ok
                 THEN FailS(r.t, [bus_config EXCEPT !.groups[gi].members =
                                     Append(@, light.short_address)], r.e)
                 ELSE match_loop_unverified(r.t,
                          [bus_config EXCEPT !.groups[gi].members =
                              Append(@, light.short_address)],
                          gi, pattern, i + 1)
             removed(r, index) ==
                 IF ~r.ok THEN FailS(r.t, bus_config, r.e)
                 ELSE match_loop_unverified(r.t,
                          [bus_config EXCEPT !.groups[gi].members = RemoveAt(@, index)],
                          gi, pattern, i + 1)
             matched(index) ==
                 IF is_match(pattern, light.description)
                 THEN IF index = 0
                      THEN added(add_to_group_and_verify(t, bus_config.bus,
                                     group.group_address, light.short_address))
                      ELSE match_loop_unverified(t, bus_config, gi, pattern, i + 1)
                 ELSE IF index # 0
                      THEN removed(remove_from_group_and_verify(t, bus_config.bus,
                                       group.group_address, light.short_address), index)
                      ELSE match_loop_unverified(t, bus_config, gi, pattern, i + 1)
         IN  matched(member_index(group.members, light.short_address))

\* match_group's for light in bus_config.channels.iter(); gi is the group.
RECURSIVE match_loop(_, _, _, _, _)
match_loop(t, bus_config, gi, pattern, i) ==
    IF i > Len(bus_config.channels) THEN OkS(t, bus_config, RNone)
    ELSE LET light == bus_config.channels[i]
             group == bus_config.groups[gi]
             added(r) ==
                 IF ~r.ok THEN FailS(r.t, bus_config, r.e)
                 ELSE match_loop(r.t,
                          [bus_config EXCEPT !.groups[gi].members =
                              Append(@, light.short_address)],
                          gi, pattern, i + 1)
             removed(r, index) ==
                 IF ~r.ok THEN FailS(r.t, bus_config, r.e)
                 ELSE match_loop(r.t,
                          [bus_config EXCEPT !.groups[gi].members = RemoveAt(@, index)],
                          gi, pattern, i + 1)
             matched(index) ==
                 IF is_match(pattern, light.description)
                 THEN IF index = 0
                      THEN added(add_to_group_and_verify(t, bus_config.bus,
                                     group.group_address, light.short_address))
                      ELSE match_loop(t, bus_config, gi, pattern, i + 1)
                 ELSE IF index # 0
                      THEN removed(remove_from_group_and_verify(t, bus_config.bus,
                                       group.group_address, light.short_address), index)
                      ELSE match_loop(t, bus_config, gi, pattern, i + 1)
         IN  matched(member_index(group.members, light.short_address))

\* DaliManager::match_group if it created the group and looked at no light.
DaliManager_match_group_unmatched(t, bus_config, group_address, light_name_pattern) ==
    IF ~RegexCompiles(light_name_pattern) THEN FailS(t, bus_config, "Regex")
    ELSE OkS(t,
             IF get_group_index(bus_config, group_address) = 0
             THEN [bus_config EXCEPT !.groups =
                      Append(@, Group(Desc("New-Group ", group_address),
                                      group_address, << >>))]
             ELSE bus_config,
             RNone)

DaliManager_match_group(t, bus_config, group_address, light_name_pattern) ==
    IF ~RegexCompiles(light_name_pattern) THEN FailS(t, bus_config, "Regex")
    ELSE LET matching(created) ==
                 match_loop(t, created, get_group_index(created, group_address),
                            light_name_pattern, 1)
         IN  matching(IF get_group_index(bus_config, group_address) = 0
                      THEN [bus_config EXCEPT !.groups =
                               Append(@, Group(Desc("New-Group ", group_address),
                                               group_address, << >>))]
                      ELSE bus_config)

---------------------------------------------------------------------------
(* dali_manager.rs: DaliBusIterator, the commissioning search.  The        *)
(* iterator is [bus, low, mid, high, short_address]; a previous byte of -1 *)
(* is None.  No progress callback is given and terminate() is not called   *)
(* by the dispatcher.                                                      *)

DaliBusIterator_new(t, bus, parameter) ==
    LET it == [bus |-> bus, low |-> -1, mid |-> -1, high |-> -1, short_address |-> 0]
        randomised(randomise) ==
            IF ~randomise.ok THEN FailS(randomise.t, it, randomise.e)
            ELSE OkS(randomise.t, it, RNone)
        initialised(initialise) ==
            IF ~initialise.ok THEN FailS(initialise.t, it, initialise.e)
            ELSE randomised(broadcast_command(initialise.t, bus, DALI_RANDOMISE, 0, TRUE))
        terminated(terminate) ==
            IF ~terminate.ok THEN FailS(terminate.t, it, terminate.e)
            ELSE initialised(broadcast_command(terminate.t, bus, DALI_INITIALISE,
                                               parameter, TRUE))
    IN  terminated(broadcast_command(t, bus, DALI_TERMINATE, 0, TRUE))

\* diff_value if it compared nothing.
diff_value_always(previous, new) == new

\* -1 for None
diff_value(previous, new) == IF previous = -1 \/ previous # new THEN new ELSE -1

\* send_search_address if it sent nothing.
send_search_address_silent(t, it, search_address) == OkS(t, it, RNone)

send_search_address(t, it, search_address) ==
    LET low == diff_value(it.low, search_address % 256)
        mid == diff_value(it.mid, (search_address \div 256) % 256)
        high == diff_value(it.high, (search_address \div 65536) % 256)
        it1 == [it EXCEPT !.low = search_address % 256,
                          !.mid = (search_address \div 256) % 256,
                          !.high = (search_address \div 65536) % 256]
        sent_high(rh) ==
            IF ~rh.ok THEN FailS(rh.t, it1, rh.e) ELSE OkS(rh.t, it1, RNone)
        sent_mid(rm) ==
            IF ~rm.ok THEN FailS(rm.t, it1, rm.e)
            ELSE sent_high(IF high # -1
                           THEN broadcast_command(rm.t, it.bus, DALI_SEARCHADDRH, high, FALSE)
                           ELSE Ok(rm.t, RNone))
        sent_low(rl) ==
            IF ~rl.ok THEN FailS(rl.t, it1, rl.e)
            ELSE sent_mid(IF mid # -1
                          THEN broadcast_command(rl.t, it.bus, DALI_SEARCHADDRM, mid, FALSE)
                          ELSE Ok(rl.t, RNone))
    IN  sent_low(IF low # -1
                 THEN broadcast_command(t, it.bus, DALI_SEARCHADDRL, low, FALSE)
                 ELSE Ok(t, RNone))

\* is_random_address_le if it took the first COMPARE's reply as the answer.
is_random_address_le_unrepeated(t, bus, retry) ==
    LET matched(r) ==
            IF ~r.ok THEN r
            ELSE Ok(r.t, r.v.k # "None")
    IN  matched(broadcast_command_allow_collision(t, bus, DALI_COMPARE, 0, FALSE))

RECURSIVE is_random_address_le(_, _, _)
is_random_address_le(t, bus, retry) ==
    LET matched(r) ==
            IF ~r.ok THEN r
            ELSE IF r.v.k = "None"
                 THEN IF retry = 0 THEN Ok(r.t, FALSE)
                      ELSE is_random_address_le(r.t, bus, retry - 1)
            ELSE Ok(r.t, TRUE)
    IN  matched(broadcast_command_allow_collision(t, bus, DALI_COMPARE, 0, FALSE))

\* find_next_device's while delta > 0; v is the search address it ends with.
RECURSIVE search_loop(_, _, _, _)
search_loop(t, it, search_address, delta) ==
    IF delta = 0 THEN OkS(t, it, search_address)
    ELSE LET compared(sent, le) ==
                 IF ~le.ok THEN FailS(le.t, sent.s, le.e)
                 ELSE search_loop(le.t, sent.s,
                                  IF le.v THEN search_address - delta
                                  ELSE search_address + delta,
                                  delta \div 2)
             addressed(sent) ==
                 IF ~sent.ok THEN sent
                 ELSE compared(sent, is_random_address_le(sent.t, it.bus, CompareRetries))
         IN  addressed(send_search_address(t, it, search_address))

\* find_next_device if it took 0x1000000 for a search address.
find_next_device_unbounded(t, it) ==
    LET settled(tN, itN, search_address) ==
            OkS(tN, [itN EXCEPT !.short_address = @ + 1], itN.short_address)
        compared_again(searched, sent1, le1) ==
            IF ~le1.ok THEN FailS(le1.t, sent1.s, le1.e)
            ELSE settled(le1.t, sent1.s, searched.v + 1)
        addressed_again(searched, sent1) ==
            IF ~sent1.ok THEN sent1
            ELSE compared_again(searched, sent1,
                     is_random_address_le(sent1.t, it.bus, CompareRetries))
        compared(searched, sent, le) ==
            IF ~le.ok THEN FailS(le.t, sent.s, le.e)
            ELSE IF ~le.v
                 THEN addressed_again(searched,
                          send_search_address(le.t, sent.s, searched.v + 1))
            ELSE settled(le.t, sent.s, searched.v)
        addressed(searched, sent) ==
            IF ~sent.ok THEN sent
            ELSE compared(searched, sent,
                     is_random_address_le(sent.t, it.bus, CompareRetries))
        found(searched) ==
            IF ~searched.ok THEN searched
            ELSE addressed(searched,
                     send_search_address(searched.t, searched.s, searched.v))
    IN  found(search_loop(t, it, 8388608, 4194304))

\* v is the short address counted by the iterator, -1 for Ok(None).
find_next_device(t, it) ==
    LET terminated(terminate, itN) ==
            IF ~terminate.ok THEN FailS(terminate.t, itN, terminate.e)
            ELSE OkS(terminate.t, itN, -1)
        settled(tN, itN, search_address) ==
            IF search_address > 16777215
            THEN terminated(broadcast_command(tN, it.bus, DALI_TERMINATE, 0, FALSE), itN)
            ELSE OkS(tN, [itN EXCEPT !.short_address = @ + 1], itN.short_address)
        compared_again(searched, sent1, le1) ==
            IF ~le1.ok THEN FailS(le1.t, sent1.s, le1.e)
            ELSE settled(le1.t, sent1.s, searched.v + 1)
        addressed_again(searched, sent1) ==
            IF ~sent1.ok THEN sent1
            ELSE compared_again(searched, sent1,
                     is_random_address_le(sent1.t, it.bus, CompareRetries))
        compared(searched, sent, le) ==
            IF ~le.ok THEN FailS(le.t, sent.s, le.e)
            ELSE IF ~le.v
                 THEN addressed_again(searched,
                          send_search_address(le.t, sent.s, searched.v + 1))
            ELSE settled(le.t, sent.s, searched.v)
        addressed(searched, sent) ==
            IF ~sent.ok THEN sent
            ELSE compared(searched, sent,
                     is_random_address_le(sent.t, it.bus, CompareRetries))
        found(searched) ==
            IF ~searched.ok THEN searched
            ELSE addressed(searched,
                     send_search_address(searched.t, searched.s, searched.v))
    IN  found(search_loop(t, it, 8388608, 4194304))

---------------------------------------------------------------------------
(* mqtt.rs: MqttDali, the command handlers.  A handler's result is         *)
(*   [t, buses, pubs, ok, e]:                                               *)
(* the transport and dali_config.buses as it left them, what it published  *)
(* itself, and Ok or Err(e) ("panic" and "hang" as above).                 *)

H(t, bs, pubs, ok, e) == [t |-> t, buses |-> bs, pubs |-> pubs, ok |-> ok, e |-> e]

\* QueryLightReply::new / new_failure
QueryLightReply(bus, address, failure, status) ==
    [bus |-> bus, address |-> address, failure |-> failure, status |-> status]

\* A publication: the topic kind and the payload, which is a text on
\* Status, Active and Version, the buses on Config, a reply on Reply.
Pub(topic, text, config, reply) ==
    [topic |-> topic, text |-> text, config |-> config, reply |-> reply]
StatusPub(text) == Pub("Status", text, << >>, QueryLightReply(0, 0, FALSE, 0))
ConfigPub(bs) == Pub("Config", "", bs, QueryLightReply(0, 0, FALSE, 0))
ReplyPub(reply) == Pub("Reply", "", << >>, reply)
TextPub(topic, text) == Pub(topic, text, << >>, QueryLightReply(0, 0, FALSE, 0))

\* buses.get(bus_number).is_some()
HasBus(bs, bus_number) == bus_number < Len(bs)

RECURSIVE update_status_loop(_, _, _)
update_status_loop(t, bs, bus_number) ==
    IF bus_number >= Len(bs) THEN H(t, bs, << >>, TRUE, "")
    ELSE LET stored(status) ==
                 IF ~status.ok THEN H(status.t, bs, << >>, FALSE, status.e)
                 ELSE update_status_loop(status.t,
                          [bs EXCEPT ![bus_number + 1].status = status.v], bus_number + 1)
         IN  stored(get_bus_status(t, bus_number))

update_bus_status(t, bs) == update_status_loop(t, bs, 0)

\* check_bus_status if it let every status pass.
check_bus_status_passing(status) == ""

\* "" for Ok
check_bus_status(status) ==
    CASE status = "Active" -> ""
      [] status = "NoPower" -> "BusHasNoPower"
      [] status = "Overloaded" -> "BusOverloaded"
      [] OTHER -> "InvalidBusStatus"

check_bus(t, bs, bus_number) ==
    LET checked(updated, e) == H(updated.t, updated.buses, << >>, e = "", e)
        looked_up(updated) ==
            IF ~updated.ok THEN updated
            ELSE IF ~HasBus(updated.buses, bus_number)
                 THEN H(updated.t, updated.buses, << >>, FALSE, "BusNumber")
            ELSE checked(updated, check_bus_status(updated.buses[bus_number + 1].status))
    IN  looked_up(update_bus_status(t, bs))

rename_bus(t, bs, bus_number, name) ==
    IF HasBus(bs, bus_number)
    THEN H(t, [bs EXCEPT ![bus_number + 1].description = Name(name)], << >>, TRUE, "")
    ELSE H(t, bs, << >>, FALSE, "BusNumber")

rename_light(t, bs, bus_number, short_address, name) ==
    IF ~HasBus(bs, bus_number) THEN H(t, bs, << >>, FALSE, "BusNumber")
    ELSE LET index == get_channel_index(bs[bus_number + 1], short_address)
         IN  IF index = 0 THEN H(t, bs, << >>, FALSE, "ShortAddress")
             ELSE H(t, [bs EXCEPT ![bus_number + 1].channels[index].description = Name(name)],
                    << >>, TRUE, "")

rename_group(t, bs, bus_number, group_address, name) ==
    IF ~HasBus(bs, bus_number) THEN H(t, bs, << >>, FALSE, "BusNumber")
    ELSE LET index == get_group_index(bs[bus_number + 1], group_address)
         IN  IF index = 0 THEN H(t, bs, << >>, FALSE, "GroupAddress")
             ELSE H(t, [bs EXCEPT ![bus_number + 1].groups[index].description = Name(name)],
                    << >>, TRUE, "")

\* (0u8..16u8).find(unused), 16 for None
first_unused_group(b) ==
    IF \E g \in 0..15 : get_group_index(b, g) = 0
    THEN CHOOSE g \in 0..15 : /\ get_group_index(b, g) = 0
                              /\ \A h \in 0..(g - 1) : get_group_index(b, h) # 0
    ELSE 16

new_group(t, bs, bus_number) ==
    IF ~HasBus(bs, bus_number) THEN H(t, bs, << >>, FALSE, "BusNumber")
    ELSE LET group_address == first_unused_group(bs[bus_number + 1])
         IN  IF group_address = 16 THEN H(t, bs, << >>, FALSE, "NoMoreGroups")
             ELSE H(t, [bs EXCEPT ![bus_number + 1].groups =
                           Append(@, Group(Desc("Group ", group_address), group_address, << >>))],
                    << >>, TRUE, "")

\* remove_group's for short_address in group.members.iter()
RECURSIVE remove_members_loop(_, _, _, _, _)
remove_members_loop(t, bus_number, group_address, members, i) ==
    IF i > Len(members) THEN Ok(t, RNone)
    ELSE LET removed(r) ==
                 IF ~r.ok THEN r
                 ELSE remove_members_loop(r.t, bus_number, group_address, members, i + 1)
         IN  removed(DaliManager_remove_from_group(t, bus_number, group_address,
                                                   members[i]))

\* remove_group if it removed the group from the model only.
remove_group_unsent(t, bs, bus_number, group_address) ==
    IF ~HasBus(bs, bus_number) THEN H(t, bs, << >>, FALSE, "BusNumber")
    ELSE IF get_group_index(bs[bus_number + 1], group_address) = 0
         THEN H(t, bs, << >>, FALSE, "NoSuchGroup")
    ELSE H(t, [bs EXCEPT ![bus_number + 1].groups =
                  RemoveAt(@, get_group_index(bs[bus_number + 1], group_address))],
           << >>, TRUE, "")

remove_group(t, bs, bus_number, group_address) ==
    IF ~HasBus(bs, bus_number) THEN H(t, bs, << >>, FALSE, "BusNumber")
    ELSE LET bus == bs[bus_number + 1]
             removed(r, index) ==
                 IF ~r.ok THEN H(r.t, bs, << >>, FALSE, r.e)
                 ELSE H(r.t, [bs EXCEPT ![bus_number + 1].groups = RemoveAt(@, index)],
                        << >>, TRUE, "")
             found(index) ==
                 IF index = 0 THEN H(t, bs, << >>, FALSE, "NoSuchGroup")
                 ELSE removed(remove_members_loop(t, bus_number, group_address,
                                                  bus.groups[index].members, 1), index)
             checked(e) ==
                 IF e # "" THEN H(t, bs, << >>, FALSE, e)
                 ELSE found(get_group_index(bus, group_address))
         IN  checked(check_bus_status(bus.status))

add_to_group(t, bs, bus_number, group_address, short_address) ==
    IF ~HasBus(bs, bus_number) THEN H(t, bs, << >>, FALSE, "BusNumber")
    ELSE LET listed(created, r, index) ==
                 IF member_index(created[bus_number + 1].groups[index].members,
                                 short_address) = 0
                 THEN H(r.t, [created EXCEPT ![bus_number + 1].groups[index].members =
                                 Append(@, short_address)], << >>, TRUE, "")
                 ELSE H(r.t, created, << >>, TRUE, "")
             added(created, r) ==
                 IF ~r.ok THEN H(r.t, created, << >>, FALSE, r.e)
                 ELSE listed(created, r,
                             get_group_index(created[bus_number + 1], group_address))
             checked(created, e) ==
                 IF e # "" THEN H(t, created, << >>, FALSE, e)
                 ELSE added(created, add_to_group_and_verify(t, bus_number, group_address,
                                                             short_address))
             with_group(created) ==
                 checked(created, check_bus_status(created[bus_number + 1].status))
         IN  with_group(IF get_group_index(bs[bus_number + 1], group_address) = 0
                        THEN [bs EXCEPT ![bus_number + 1].groups =
                                 Append(@, Group(Desc("Group ", group_address),
                                                 group_address, << >>))]
                        ELSE bs)

remove_from_group(t, bs, bus_number, group_address, short_address) ==
    IF ~HasBus(bs, bus_number) THEN H(t, bs, << >>, FALSE, "BusNumber")
    ELSE LET bus == bs[bus_number + 1]
             removed(gi, index, r) ==
                 IF ~r.ok THEN H(r.t, bs, << >>, FALSE, r.e)
                 ELSE H(r.t, [bs EXCEPT ![bus_number + 1].groups[gi].members =
                                 RemoveAt(@, index)], << >>, TRUE, "")
             checked(gi, index, e) ==
                 IF e # "" THEN H(t, bs, << >>, FALSE, e)
                 ELSE removed(gi, index,
                          remove_from_group_and_verify(t, bus_number, group_address,
                                                       short_address))
             listed(gi, index) ==
                 IF index = 0 THEN H(t, bs, << >>, TRUE, "")
                 ELSE checked(gi, index, check_bus_status(bus.status))
             found(gi) ==
                 IF gi = 0 THEN H(t, bs, << >>, FALSE, "NoSuchGroup")
                 ELSE listed(gi, member_index(bus.groups[gi].members, short_address))
         IN  found(get_group_index(bus, group_address))

match_group(t, bs, bus_number, group_address, light_name_pattern) ==
    IF ~HasBus(bs, bus_number) THEN H(t, bs, << >>, FALSE, "BusNumber")
    ELSE LET matched(r) == H(r.t, [bs EXCEPT ![bus_number + 1] = r.s], << >>, r.ok, r.e)
             checked(e) ==
                 IF e # "" THEN H(t, bs, << >>, FALSE, e)
                 ELSE matched(DaliManager_match_group(t, bs[bus_number + 1], group_address,
                                                      light_name_pattern))
         IN  checked(check_bus_status(bs[bus_number + 1].status))

\* query_light_status if it handed the manager's error to the dispatcher.
query_light_status_propagating(t, bs, bus, short_address) ==
    LET replied(light_status) ==
            IF light_status.ok
            THEN H(light_status.t, bs,
                   <<ReplyPub(QueryLightReply(bus, short_address, FALSE, light_status.v))>>,
                   TRUE, "")
            ELSE H(light_status.t, bs, << >>, FALSE, light_status.e)
    IN  replied(DaliManager_query_light_status(t, bus, short_address))

query_light_status(t, bs, bus, short_address) ==
    LET query_light_reply(light_status) ==
            IF light_status.ok THEN QueryLightReply(bus, short_address, FALSE, light_status.v)
            ELSE QueryLightReply(bus, short_address, TRUE, 0)
        replied(light_status) ==
            IF light_status.e = "panic" THEN H(light_status.t, bs, << >>, FALSE, "panic")
            ELSE H(light_status.t, bs, <<ReplyPub(query_light_reply(light_status))>>,
                   TRUE, "")
    IN  replied(DaliManager_query_light_status(t, bus, short_address))

remove_short_address(t, bs, bus_number, short_address) ==
    IF ~HasBus(bs, bus_number) THEN H(t, bs, << >>, FALSE, "BusNumber")
    ELSE LET removed(r) == H(r.t, [bs EXCEPT ![bus_number + 1] = r.s], << >>, r.ok, r.e)
             checked(e) ==
                 IF e # "" THEN H(t, bs, << >>, FALSE, e)
                 ELSE removed(DaliManager_remove_short_address(t, bs[bus_number + 1],
                                                               short_address))
         IN  checked(check_bus_status(bs[bus_number + 1].status))

\* first_unused_short_address if it searched from the top.
first_unused_short_address_highest(b) ==
    IF \E a \in 0..63 : get_channel_index(b, a) = 0
    THEN CHOOSE a \in 0..63 : /\ get_channel_index(b, a) = 0
                              /\ \A c \in (a + 1)..63 : get_channel_index(b, c) # 0
    ELSE 64

\* (0..64u8).find(unused), 64 for None
first_unused_short_address(b) ==
    IF \E a \in 0..63 : get_channel_index(b, a) = 0
    THEN CHOOSE a \in 0..63 : /\ get_channel_index(b, a) = 0
                              /\ \A c \in 0..(a - 1) : get_channel_index(b, c) # 0
    ELSE 64

\* find_lights' while device_iterator.find_next_device()?.is_some()
RECURSIVE find_loop(_, _, _, _, _)
find_loop(t, it, bs, pubs, bus_number) ==
    LET published(found, programmed, pushed) ==
            find_loop(programmed.t, found.s, pushed,
                      Append(pubs, ConfigPub(pushed)), bus_number)
        pushing(found, programmed, short_address) ==
            IF ~programmed.ok THEN H(programmed.t, bs, pubs, FALSE, programmed.e)
            ELSE published(found, programmed,
                     [bs EXCEPT ![bus_number + 1].channels =
                         Append(@, Channel(Desc("Light ", short_address), short_address))])
        programming(found, short_address) ==
            IF short_address = 64 THEN H(found.t, bs, pubs, FALSE, "panic")
            ELSE pushing(found,
                         program_short_address(found.t, bus_number, short_address),
                         short_address)
        next(found) ==
            IF ~found.ok THEN H(found.t, bs, pubs, FALSE, found.e)
            ELSE IF found.v = -1 THEN H(found.t, bs, pubs, TRUE, "")
            ELSE programming(found, first_unused_short_address(bs[bus_number + 1]))
    IN  next(find_next_device(t, it))

\* selection: "All" | "WithoutShortAddress"
find_lights(t, bs, bus_number, selection) ==
    LET searching(cleared, device_iterator) ==
            IF ~device_iterator.ok
            THEN H(device_iterator.t, cleared, << >>, FALSE, device_iterator.e)
            ELSE find_loop(device_iterator.t, device_iterator.s, cleared, << >>, bus_number)
        clearing(checked, cleared) ==
            searching(cleared,
                      DaliBusIterator_new(checked.t, bus_number,
                                          IF selection = "All" THEN 0 ELSE 255))
        starting(checked) ==
            IF ~checked.ok THEN checked
            ELSE clearing(checked,
                          IF selection = "All"
                          THEN [checked.buses EXCEPT ![bus_number + 1].channels = << >>]
                          ELSE checked.buses)
    IN  starting(check_bus(t, bs, bus_number))

---------------------------------------------------------------------------
(* What the commands of the model carry, and what the transport answers.   *)

BusNumbers == 0..bus_count          \* bus_count itself is no bus
Addresses == {0, 1, 64}             \* 64 is no short address
GroupAddresses == {0, 1, 16}        \* 16 is no group address
Levels == {254}
Names == {"X"}
Patterns == {"Light 0", "X", "("}

Replies == {RNone, Value8(0), Value8(255), ReceiveCollision, TransportErr}

\* With n = 0 only `rest` is ever answered.
Oracles ==
    {[n |-> 0, first |-> r, rest |-> r] : r \in Replies}
    \cup {[n |-> n, first |-> p[1], rest |-> p[2]] :
            n \in 1..MaxFirst, p \in {q \in Replies \X Replies : q[1] # q[2]}}

\* Replies to the 'd' command: no power, overloaded, active, and a nibble
\* that is no status.
StatusReplies == {Value8(0), Value8(16), Value8(32), Value8(255)}

IdleOracle == [n |-> 0, first |-> RNone, rest |-> RNone]
LightCount == IF transport = "emulator" THEN Len(lights[1]) ELSE 0
Draws == [1..LightCount -> 1..MaxRandom]
IdleDraw == [i \in 1..LightCount |-> 0]

Transport(oracle, status, rnd) ==
    [kind |-> transport, lights |-> lights, oracle |-> oracle,
     status |-> [b \in 1..bus_count |-> status], rnd |-> rnd,
     ovf |-> IF overflow_checks THEN "panic" ELSE "wrap", log |-> << >>,
     frames |-> << >>, twice |-> {}]

\* The transports a command may meet: one that is not used, one that is
\* sent frames, one that is asked for the bus status, one that is asked
\* for the status and then, if the bus is active, commissioned.
Quiet == {Transport(IdleOracle, Value8(32), IdleDraw)}
Framed ==
    IF transport = "atx" THEN {Transport(o, Value8(32), IdleDraw) : o \in Oracles}
    ELSE Quiet
Asked ==
    IF transport = "atx" THEN {Transport(IdleOracle, st, IdleDraw) : st \in StatusReplies}
    ELSE Quiet
Commissioned ==
    IF transport = "atx"
    THEN {Transport(o, Value8(32), IdleDraw) : o \in Oracles}
         \cup {Transport(IdleOracle, st, IdleDraw) : st \in StatusReplies \ {Value8(32)}}
    ELSE {Transport(IdleOracle, Value8(32), rnd) : rnd \in Draws}

---------------------------------------------------------------------------
(* main.rs, mqtt.rs: the program                                           *)

\* A configuration file written by an earlier run.
LoadedConfig ==
    << [BusConfig_new(0, "Active") EXCEPT
           !.channels = <<Channel(Desc("Light ", 0), 0), Channel(Desc("Light ", 1), 1)>>,
           !.groups = <<Group(Desc("Group ", 0), 0, <<0>>)>>] >>

\* DaliBusEmulator::new_with_config
RECURSIVE config_group_mask(_, _, _)
config_group_mask(b, short_address, i) ==
    IF i > Len(b.groups) THEN 0
    ELSE LET rest == config_group_mask(b, short_address, i + 1)
         IN  IF member_index(b.groups[i].members, short_address) # 0
             THEN SetBit(rest, b.groups[i].group_address)
             ELSE rest

DaliBusEmulator_new_with_config(b) ==
    [i \in 1..Len(b.channels) |->
        DaliLightEmulator_new_with_config(b.channels[i].short_address,
            config_group_mask(b, b.channels[i].short_address, 1))]

DaliBusEmulator_new(light_count) == [i \in 1..light_count |-> DaliLightEmulator_new]

\* The fields of a command envelope: bus, address, group (-1 for a field
\* the command does not have) and its name or pattern.
Args(bus, address, group, text) ==
    [bus |-> bus, address |-> address, group |-> group, text |-> text]

\* What a payload on the command topic caused: the command kind and its
\* fields, how the handler ended ("ok", "err", "panic", "hang", or
\* "unparsed"), the publications in order, the transport's log and the
\* frames sent, dali_config.buses and the emulator's ballasts as they
\* were before, and for a command the payload handled before it.
NoCommand == [cmd |-> "none", bus |-> -1, address |-> -1, group |-> -1, text |-> "",
              outcome |-> "none", pubs |-> << >>, log |-> << >>, frames |-> << >>,
              before |-> << >>, ballasts |-> << >>,
              earlier |-> [cmd |-> "none", bus |-> -1, address |-> -1, group |-> -1,
                           text |-> "", outcome |-> "none"]]

\* A command as the one after it remembers it: its kind, fields and outcome.
Earlier(l) ==
    [cmd |-> l.cmd, bus |-> l.bus, address |-> l.address, group |-> l.group,
     text |-> l.text, outcome |-> l.outcome]

\* main: the configuration is loaded or new, then the controller is built
\* (DaliAtx::try_new, DaliControllerEmulator::try_new), then MqttDali::run.
Init ==
    /\ transport \in {"atx", "emulator"}
    /\ overflow_checks \in BOOLEAN
    /\ \E loaded \in BOOLEAN :
          /\ buses = IF loaded THEN LoadedConfig
                     ELSE IF transport = "atx"
                          THEN [b \in 1..bus_count |-> BusConfig_new(b - 1, "Unknown")]
                     ELSE [b \in 1..bus_count |-> BusConfig_new(b - 1, "Active")]
          /\ lights = IF transport = "atx" THEN << >>
                      ELSE IF loaded
                           THEN [b \in 1..bus_count |->
                                    DaliBusEmulator_new_with_config(LoadedConfig[b])]
                      ELSE [b \in 1..bus_count |-> DaliBusEmulator_new(NumLights)]
          /\ saved = IF loaded THEN LoadedConfig ELSE << >>
    /\ retained = << >>
    /\ session = "connecting"
    /\ handled = 0
    /\ last = NoCommand


\* The payload of the last Config publication among pubs, else `before`.
RECURSIVE LastConfig(_, _)
LastConfig(pubs, before) ==
    IF pubs = << >> THEN before
    ELSE IF pubs[Len(pubs)].topic = "Config" THEN pubs[Len(pubs)].config
    ELSE LastConfig(SubSeq(pubs, 1, Len(pubs) - 1), before)

\* run_session if it published the configuration before the Status.
Handle_ConfigFirst(cmd, args, republish_config, h) ==
    LET stopped == h.e \in {"panic", "hang"}
        reported == IF ~h.ok THEN <<StatusPub(h.e)>>
                    ELSE IF republish_config
                         THEN <<ConfigPub(h.buses), StatusPub("OK")>>
                    ELSE <<StatusPub("OK")>>
        pubs == IF stopped THEN h.pubs ELSE h.pubs \o reported
    IN  /\ buses' = h.buses
        /\ lights' = h.t.lights
        /\ retained' = LastConfig(pubs, retained)
        /\ saved' = IF h.ok /\ republish_config THEN h.buses ELSE saved
        /\ session' = IF h.e = "panic" THEN "aborted"
                      ELSE IF h.e = "hang" THEN "hung" ELSE session
        /\ last' = [cmd |-> cmd, bus |-> args.bus, address |-> args.address,
                    group |-> args.group, text |-> args.text,
                    outcome |-> IF h.ok THEN "ok" ELSE IF stopped THEN h.e ELSE "err",
                    pubs |-> pubs, log |-> h.t.log, frames |-> h.t.frames,
                    before |-> buses, ballasts |-> lights, earlier |-> Earlier(last)]
        /\ handled' = handled + 1
        /\ UNCHANGED <<transport, overflow_checks>>

\* run_session, after the match on the command: the Status publication,
\* and after "OK" the Config publication and config.save if
\* republish_config.  A panic ends the process, a hang the dispatcher.
Handle(cmd, args, republish_config, h) ==
    LET stopped == h.e \in {"panic", "hang"}
        reported == IF ~h.ok THEN <<StatusPub(h.e)>>
                    ELSE IF republish_config
                         THEN <<StatusPub("OK"), ConfigPub(h.buses)>>
                    ELSE <<StatusPub("OK")>>
        pubs == IF stopped THEN h.pubs ELSE h.pubs \o reported
    IN  /\ buses' = h.buses
        /\ lights' = h.t.lights
        /\ retained' = LastConfig(pubs, retained)
        /\ saved' = IF h.ok /\ republish_config THEN h.buses ELSE saved
        /\ session' = IF h.e = "panic" THEN "aborted"
                      ELSE IF h.e = "hang" THEN "hung" ELSE session
        /\ last' = [cmd |-> cmd, bus |-> args.bus, address |-> args.address,
                    group |-> args.group, text |-> args.text,
                    outcome |-> IF h.ok THEN "ok" ELSE IF stopped THEN h.e ELSE "err",
                    pubs |-> pubs, log |-> h.t.log, frames |-> h.t.frames,
                    before |-> buses, ballasts |-> lights, earlier |-> Earlier(last)]
        /\ handled' = handled + 1
        /\ UNCHANGED <<transport, overflow_checks>>

\* A manager result as the command_result of the match.
Arm(r) == H(r.t, buses, << >>, r.ok, r.e)

\* The event loop has a payload of the command topic to hand over.
Listening == session = "running" /\ handled < MaxCommands

\* run_session up to the subscription: Active, Version and Config are
\* published.
StartSession ==
    /\ session = "connecting"
    /\ session' = "running"
    /\ retained' = buses
    /\ UNCHANGED <<transport, overflow_checks, buses, lights, saved, handled, last>>

\* mqtt_events.poll() returns an error: run waits and connects again.
ConnectionLost ==
    /\ session = "running"
    /\ session' = "connecting"
    /\ UNCHANGED <<transport, overflow_checks, buses, lights, retained, saved, handled, last>>

\* A payload on the command topic that is no DaliCommand is logged.
InvalidPayload ==
    /\ Listening
    /\ handled' = handled + 1
    /\ last' = [NoCommand EXCEPT !.cmd = "InvalidPayload", !.outcome = "unparsed",
                                  !.before = buses, !.ballasts = lights]
    /\ UNCHANGED <<transport, overflow_checks, buses, lights, retained, saved, session>>

SetLightBrightness ==
    /\ Listening
    /\ \E bus \in BusNumbers, address \in Addresses, value \in Levels, t \in Framed :
          Handle("SetLightBrightness", Args(bus, address, -1, ""), FALSE,
                 Arm(set_light_brightness_async(t, bus, address, value)))

SetGroupBrightness ==
    /\ Listening
    /\ \E bus \in BusNumbers, group \in GroupAddresses, value \in Levels, t \in Framed :
          Handle("SetGroupBrightness", Args(bus, -1, group, ""), FALSE,
                 Arm(set_group_brightness_async(t, bus, group, value)))

\* The UpdateBusStatus arm if it cleared republish_config.
UpdateBusStatus_Silent ==
    /\ Listening
    /\ \E t \in Asked : Handle("UpdateBusStatus", Args(-1, -1, -1, ""), FALSE, update_bus_status(t, buses))

UpdateBusStatus ==
    /\ Listening
    /\ \E t \in Asked : Handle("UpdateBusStatus", Args(-1, -1, -1, ""), TRUE, update_bus_status(t, buses))

RenameBus ==
    /\ Listening
    /\ \E bus \in BusNumbers, name \in Names, t \in Quiet :
          Handle("RenameBus", Args(bus, -1, -1, name), TRUE, rename_bus(t, buses, bus, name))

RenameLight ==
    /\ Listening
    /\ \E bus \in BusNumbers, address \in Addresses, name \in Names, t \in Quiet :
          Handle("RenameLight", Args(bus, address, -1, name), TRUE, rename_light(t, buses, bus, address, name))

RenameGroup ==
    /\ Listening
    /\ \E bus \in BusNumbers, group \in GroupAddresses, name \in Names, t \in Quiet :
          Handle("RenameGroup", Args(bus, -1, group, name), TRUE, rename_group(t, buses, bus, group, name))

NewGroup ==
    /\ Listening
    /\ \E bus \in BusNumbers, t \in Quiet :
          Handle("NewGroup", Args(bus, -1, -1, ""), TRUE, new_group(t, buses, bus))

MatchGroup ==
    /\ Listening
    /\ \E bus \in BusNumbers, group \in GroupAddresses, pattern \in Patterns, t \in Framed :
          Handle("MatchGroup", Args(bus, -1, group, pattern), TRUE, match_group(t, buses, bus, group, pattern))

RemoveGroup ==
    /\ Listening
    /\ \E bus \in BusNumbers, group \in GroupAddresses, t \in Framed :
          Handle("RemoveGroup", Args(bus, -1, group, ""), TRUE, remove_group(t, buses, bus, group))

AddToGroup ==
    /\ Listening
    /\ \E bus \in BusNumbers, group \in GroupAddresses, address \in Addresses, t \in Framed :
          Handle("AddToGroup", Args(bus, address, group, ""), TRUE, add_to_group(t, buses, bus, group, address))

RemoveFromGroup ==
    /\ Listening
    /\ \E bus \in BusNumbers, group \in GroupAddresses, address \in Addresses, t \in Framed :
          Handle("RemoveFromGroup", Args(bus, address, group, ""), TRUE, remove_from_group(t, buses, bus, group, address))

FindAllLights ==
    /\ Listening
    /\ \E bus \in BusNumbers, t \in Commissioned :
          Handle("FindAllLights", Args(bus, -1, -1, ""), TRUE, find_lights(t, buses, bus, "All"))

FindNewLights ==
    /\ Listening
    /\ \E bus \in BusNumbers, t \in Commissioned :
          Handle("FindNewLights", Args(bus, -1, -1, ""), TRUE, find_lights(t, buses, bus, "WithoutShortAddress"))

QueryLightStatus ==
    /\ Listening
    /\ \E bus \in BusNumbers, address \in Addresses, t \in Framed :
          Handle("QueryLightStatus", Args(bus, address, -1, ""), FALSE, query_light_status(t, buses, bus, address))

RemoveShortAddress ==
    /\ Listening
    /\ \E bus \in BusNumbers, address \in Addresses, t \in Framed :
          Handle("RemoveShortAddress", Args(bus, address, -1, ""), FALSE, remove_short_address(t, buses, bus, address))

Next ==
    \/ StartSession
    \/ ConnectionLost
    \/ InvalidPayload
    \/ SetLightBrightness
    \/ SetGroupBrightness
    \/ UpdateBusStatus
    \/ RenameBus
    \/ RenameLight
    \/ RenameGroup
    \/ NewGroup
    \/ MatchGroup
    \/ RemoveGroup
    \/ AddToGroup
    \/ RemoveFromGroup
    \/ FindAllLights
    \/ FindNewLights
    \/ QueryLightStatus
    \/ RemoveShortAddress

Spec == Init /\ [][Next]_vars

---------------------------------------------------------------------------
(* DaliManager::change_short_address called by itself, as its comment     *)
(* offers it ("Change one short address to another"), on a bus of a few   *)
(* channels.  `last` is the call made (its arguments, whether it returned *)
(* Ok, the bus before it) and the call before it.                         *)

MaxChanges == 2

\* The short addresses the calls name, and the channel lists they start
\* from: up to two of them, in either order, each channel named by a client.
ChangeAddresses == {0, 1, 2}
ChangeChannels ==
    {<< >>}
    \cup {<<Channel(Desc("Lamp ", a), a)>> : a \in ChangeAddresses}
    \cup {<<Channel(Desc("Lamp ", p[1]), p[1]), Channel(Desc("Lamp ", p[2]), p[2])>> :
             p \in {q \in ChangeAddresses \X ChangeAddresses : q[1] # q[2]}}

Change(existing_address, new_address, outcome, before) ==
    [existing_address |-> existing_address, new_address |-> new_address,
     outcome |-> outcome, before |-> before]

ChangeInit ==
    /\ transport \in {"atx", "emulator"}
    /\ overflow_checks = FALSE
    /\ \E channels \in ChangeChannels :
          /\ buses = << [BusConfig_new(0, "Active") EXCEPT
                            !.channels = channels,
                            !.groups = <<Group(Desc("Group ", 0), 0, <<0>>)>>] >>
          /\ lights = IF transport = "atx" THEN << >>
                      ELSE << DaliBusEmulator_new_with_config(
                                  [BusConfig_new(0, "Active") EXCEPT
                                      !.channels = channels,
                                      !.groups = <<Group(Desc("Group ", 0), 0, <<0>>)>>]) >>
    /\ retained = << >>
    /\ saved = << >>
    /\ session = "setup"
    /\ handled = 0
    /\ last = [call |-> Change(-1, -1, "none", << >>),
               earlier |-> Change(-1, -1, "none", << >>)]

ChangeShortAddress ==
    /\ session = "setup"
    /\ handled < MaxChanges
    /\ \E existing_address \in ChangeAddresses, new_address \in ChangeAddresses, t \in Framed :
          LET returned(r) ==
                  /\ buses' = <<r.s>>
                  /\ lights' = r.t.lights
                  /\ last' = [call |-> Change(existing_address, new_address,
                                               IF r.ok THEN "ok" ELSE "err", buses),
                              earlier |-> last.call]
          IN  returned(change_short_address(t, buses[1], existing_address, new_address))
    /\ handled' = handled + 1
    /\ UNCHANGED <<transport, overflow_checks, retained, saved, session>>

ChangeNext == ChangeShortAddress

ChangeSpec == ChangeInit /\ [][ChangeNext]_vars

----------------------------------------------------------------------------
(* MqttDali::run and run_session step by step: every await of the session  *)
(* is a step that may return an error to run.  `session` is the position   *)
(* in run_session ("connecting": entered, nothing published yet; "failed": *)
(* it returned Err to run's match); `last` holds the events of the session *)
(* so far, the configuration it started with and the configuration the     *)
(* session before it ended with.                                           *)

\* The commands that arrive in these sessions: they change the model
\* without a frame on the bus.
SessionCommands ==
    {[cmd |-> "RenameBus", h |-> rename_bus(t, buses, bus, name)] :
        t \in Quiet, bus \in BusNumbers, name \in Names}
    \cup {[cmd |-> "NewGroup", h |-> new_group(t, buses, bus)] :
        t \in Quiet, bus \in BusNumbers}

SessionInit ==
    /\ transport = "emulator"
    /\ overflow_checks = FALSE
    /\ \E loaded \in BOOLEAN :
          /\ buses = IF loaded THEN LoadedConfig
                     ELSE [b \in 1..bus_count |-> BusConfig_new(b - 1, "Active")]
          /\ saved = IF loaded THEN LoadedConfig ELSE << >>
    /\ lights = [b \in 1..bus_count |-> DaliBusEmulator_new(NumLights)]
    /\ retained = << >>
    /\ session = "connecting"
    /\ handled = 0
    /\ last = [events |-> << >>, start |-> buses, ended |-> << >>]

\* An await of the session succeeded: the event is out, the session moves on.
Awaited(from, event, to) ==
    /\ session = from
    /\ session' = to
    /\ last' = [last EXCEPT !.events = Append(@, event)]
    /\ UNCHANGED <<transport, overflow_checks, buses, lights, saved, handled>>

\* PublishConfig if the session published no configuration.
PublishConfig_Skipped ==
    /\ Awaited("versioned", TextPub("Version", "again"), "published")
    /\ UNCHANGED retained

PublishActive ==
    /\ Awaited("connecting", TextPub("Active", "true"), "activated")
    /\ UNCHANGED retained

PublishVersion ==
    /\ Awaited("activated", TextPub("Version", "get_version"), "versioned")
    /\ UNCHANGED retained

PublishConfig ==
    /\ Awaited("versioned", ConfigPub(buses), "published")
    /\ retained' = buses

Subscribe ==
    /\ Awaited("published", TextPub("Subscribe", "Command"), "running")
    /\ UNCHANGED retained

\* The event loop takes a command from the command topic, runs its handler
\* and publishes the Status and, after a success, the configuration; a
\* publication that fails ends the session with what the handler did.
SessionCommand ==
    /\ session = "running"
    /\ handled < MaxCommands
    /\ handled' = handled + 1
    /\ \E c \in SessionCommands, failing \in BOOLEAN :
          LET reported == IF c.h.ok THEN <<StatusPub("OK"), ConfigPub(c.h.buses)>>
                          ELSE <<StatusPub(c.h.e)>>
              sent == IF failing THEN SubSeq(reported, 1, Len(reported) - 1)
                      ELSE reported
          IN  /\ buses' = c.h.buses
              /\ retained' = LastConfig(sent, retained)
              /\ saved' = IF c.h.ok /\ ~failing THEN c.h.buses ELSE saved
              /\ session' = IF failing THEN "failed" ELSE session
              /\ last' = [last EXCEPT
                            !.events = @ \o <<TextPub("Command", c.cmd)>> \o sent,
                            !.ended = IF failing THEN c.h.buses ELSE @]
    /\ UNCHANGED <<transport, overflow_checks, lights>>

\* A publish, the subscribe or the poll returns an error: `?` returns it
\* from run_session.
SessionError ==
    /\ session \in {"connecting", "activated", "versioned", "published", "running"}
    /\ session' = "failed"
    /\ last' = [last EXCEPT !.ended = buses]
    /\ UNCHANGED <<transport, overflow_checks, buses, lights, retained, saved, handled>>

\* Reconnect if run ended its loop on the error.
Reconnect_Exits ==
    /\ session = "failed"
    /\ session' = "exited"
    /\ UNCHANGED <<transport, overflow_checks, buses, lights, retained, saved, handled, last>>

\* run's Err arm: it waits ten seconds, and the loop calls run_session with
\* a new client and the same MqttDali.
Reconnect ==
    /\ session = "failed"
    /\ session' = "connecting"
    /\ last' = [last EXCEPT !.events = << >>, !.start = buses]
    /\ UNCHANGED <<transport, overflow_checks, buses, lights, retained, saved, handled>>

SessionNext ==
    \/ PublishActive
    \/ PublishVersion
    \/ PublishConfig
    \/ Subscribe
    \/ SessionCommand
    \/ SessionError
    \/ Reconnect

\* The sleep of run's Err arm ends, and nothing else stands between the
\* error and the next call of run_session.
SessionSpec == SessionInit /\ [][SessionNext]_vars /\ WF_vars(Reconnect)

----------------------------------------------------------------------------
(* DaliManager::broadcast_command one turn of its loop at a time, against  *)
(* a serial controller that may answer each frame with any reply.          *)
(* `session` is where the call is ("sending", "returned", "failed"),       *)
(* `handled` is collision_count, `last` the command, the frames sent, the  *)
(* frame sent last and the result of the call.                             *)

BroadcastInit ==
    /\ transport = "atx"
    /\ overflow_checks = FALSE
    /\ buses = << >>
    /\ lights = << >>
    /\ retained = << >>
    /\ saved = << >>
    /\ session = "sending"
    /\ handled = 0
    /\ \E command \in {DALI_TERMINATE, DALI_QUERY_STATUS}, repeat \in BOOLEAN :
          last = [command |-> command, parameter |-> 0, repeat |-> repeat,
                  sent |-> 0, frame |-> << >>, result |-> Ok(<< >>, RNone)]

\* One turn of the loop: the frame is sent, and the reply ends the call or
\* counts as a collision.
BroadcastSend ==
    /\ session = "sending"
    /\ \E reply \in Replies \cup {TransmitCollision} :
          LET matched(result) ==
                  IF ~result.ok
                  THEN /\ session' = "failed"
                       /\ handled' = handled
                       /\ last' = [last EXCEPT !.sent = @ + 1,
                                               !.frame = result.t.frames[1],
                                               !.result = Fail(<< >>, result.e)]
                  ELSE IF ~is_collision(result.v)
                  THEN /\ session' = "returned"
                       /\ handled' = handled
                       /\ last' = [last EXCEPT !.sent = @ + 1,
                                               !.frame = result.t.frames[1],
                                               !.result = Ok(<< >>, result.v)]
                  ELSE /\ session' = IF handled + 1 > CollisionRetries
                                     THEN "failed" ELSE "sending"
                       /\ handled' = handled + 1
                       /\ last' = [last EXCEPT
                                     !.sent = @ + 1,
                                     !.frame = result.t.frames[1],
                                     !.result = IF handled + 1 > CollisionRetries
                                                THEN Fail(<< >>, "UnexpectedStatus")
                                                ELSE @]
              send(t) ==
                  matched(IF last.repeat
                          THEN send_2_bytes_repeat(t, 0, broadcast_b1(last.command),
                                   broadcast_b2(last.command, last.parameter))
                          ELSE send_2_bytes(t, 0, broadcast_b1(last.command),
                                   broadcast_b2(last.command, last.parameter)))
          IN  send(Transport([n |-> 0, first |-> reply, rest |-> reply],
                             Value8(32), IdleDraw))
    /\ UNCHANGED <<transport, overflow_checks, buses, lights, retained, saved>>

BroadcastNext == BroadcastSend

\* The serial controller answers every frame within its read timeout, so
\* the loop takes its next turn.
BroadcastSpec == BroadcastInit /\ [][BroadcastNext]_vars /\ WF_vars(BroadcastSend)

---------------------------------------------------------------------------
(* The manager called directly.  Each step builds a DaliManager over a     *)
(* serial controller whose replies are drawn and calls one operation of    *)
(* it; `last` keeps the call, its result and the frames it sent:           *)
(*   [call, target, fade_time, ok, e, v, found, counter, frames, twice]    *)
(* v is the decision of is_random_address_le (FALSE for the other calls);  *)
(* of find_next_device, target is the iterator's short address counter     *)
(* before the call, counter the one after it, and found what the call      *)
(* yielded, -1 for the end of the sequence (and for the other calls).      *)

MaxCalls == 1
MaxQuiet == 2
MaxSilent == 104

\* The controller answers `first` to up to MaxQuiet transactions, then `rest`.
ManagerOracles ==
    {[n |-> n, first |-> p[1], rest |-> p[2]] :
        n \in 0..MaxQuiet, p \in {q \in Replies \X Replies : q[1] # q[2]}}
    \cup {[n |-> 0, first |-> r, rest |-> r] : r \in Replies}

FadeTimes == {0, 1, 15, 16}         \* 16 is no fade time

ManagerInit ==
    /\ transport = "atx"
    /\ overflow_checks = FALSE
    /\ buses = << >>
    /\ lights = << >>
    /\ retained = << >>
    /\ saved = << >>
    /\ session = "calling"
    /\ handled = 0
    /\ last = [call |-> "none", target |-> 0, fade_time |-> 0, ok |-> TRUE, e |-> "",
               v |-> FALSE, found |-> -1, counter |-> 0, frames |-> << >>, twice |-> {}]

Called(call, target, fade_time, r, v, found, counter) ==
    /\ last' = [call |-> call, target |-> target, fade_time |-> fade_time,
                ok |-> r.ok, e |-> r.e, v |-> v, found |-> found, counter |-> counter,
                frames |-> r.t.frames, twice |-> r.t.twice]
    /\ handled' = handled + 1
    /\ UNCHANGED <<transport, overflow_checks, buses, lights, retained, saved, session>>

CompareCall ==
    /\ handled < MaxCalls
    /\ \E oracle \in ManagerOracles :
          LET decided(r) ==
                  Called("is_random_address_le", 0, 0, r, IF r.ok THEN r.v ELSE FALSE, -1, 0)
          IN  decided(is_random_address_le(Transport(oracle, Value8(32), IdleDraw),
                                           0, CompareRetries))

LightFadeCall ==
    /\ handled < MaxCalls
    /\ \E oracle \in ManagerOracles, short_address \in Addresses, fade_time \in FadeTimes :
          LET set(r) == Called("set_light_fade_time", short_address, fade_time, r, FALSE, -1, 0)
          IN  set(set_light_fade_time(Transport(oracle, Value8(32), IdleDraw),
                                      0, short_address, fade_time))

GroupFadeCall ==
    /\ handled < MaxCalls
    /\ \E oracle \in ManagerOracles, group_address \in GroupAddresses,
          fade_time \in FadeTimes :
          LET set(r) == Called("set_group_fade_time", group_address, fade_time, r, FALSE, -1, 0)
          IN  set(set_group_fade_time(Transport(oracle, Value8(32), IdleDraw),
                                      0, group_address, fade_time))

ProgramCall ==
    /\ handled < MaxCalls
    /\ \E oracle \in ManagerOracles, short_address \in Addresses :
          LET programmed(r) == Called("program_short_address", short_address, 0, r, FALSE, -1, 0)
          IN  programmed(program_short_address(Transport(oracle, Value8(32), IdleDraw),
                                               0, short_address))

\* The first call of a new iterator whose counter is short_address: no
\* ballast answers the first n transactions, then every one is answered
\* with `reply`.
FindNextCall ==
    /\ handled < MaxCalls
    /\ \E n \in 0..MaxSilent, reply \in Replies, short_address \in {0, 1} :
          LET found(r) ==
                  Called("find_next_device", short_address, 0, r, FALSE,
                         IF r.ok THEN r.v ELSE -1, r.s.short_address)
          IN  found(find_next_device(
                        Transport([n |-> n, first |-> RNone, rest |-> reply],
                                  Value8(32), IdleDraw),
                        [bus |-> 0, low |-> -1, mid |-> -1, high |-> -1,
                         short_address |-> short_address]))

ManagerNext ==
    CompareCall \/ LightFadeCall \/ GroupFadeCall \/ ProgramCall \/ FindNextCall

ManagerSpec == ManagerInit /\ [][ManagerNext]_vars

---------------------------------------------------------------------------
(* The commissioning search, one turn of find_lights' while loop at a      *)
(* time.  On the emulator the RANDOMISE draws range over 0 .. MaxRandom:   *)
(* gen_range(0..=0x0fff) draws 0 as it draws any other address; the        *)
(* emulator is built for a new configuration with one emulated light or    *)
(* with NumLights, or from a configuration file.  The serial controller    *)
(* answers the first transactions of a command, up to MaxAnswered of them, *)
(* and none after.  While the loop runs,                                   *)
(*   last = [cmd, bus, outcome, it, oracle, found, frames, before, start,  *)
(*           ballasts]                                                     *)
(* outcome: "searching", then "ok", "err", "panic" or "hang"; it: the      *)
(* iterator; oracle: what the serial controller still answers; found: the  *)
(* short address programmed in the last turn (-1: none); frames: those of  *)
(* the last turn; before, start: dali_config.buses and the emulator's      *)
(* ballasts before the command; ballasts: those before the last turn.      *)

MaxSearches == 2
MaxAnswered == 7

SearchDraws == [1..LightCount -> 0..MaxRandom]

SearchOracles ==
    IF transport = "atx"
    THEN {[n |-> n, first |-> Value8(255), rest |-> RNone] : n \in 0..MaxAnswered}
    ELSE {IdleOracle}

SearchInit ==
    /\ transport \in {"atx", "emulator"}
    /\ overflow_checks = FALSE
    /\ \E loaded \in BOOLEAN, light_count \in {1, NumLights} :
          /\ buses = IF loaded THEN LoadedConfig
                     ELSE IF transport = "atx"
                          THEN [b \in 1..bus_count |-> BusConfig_new(b - 1, "Unknown")]
                     ELSE [b \in 1..bus_count |-> BusConfig_new(b - 1, "Active")]
          /\ lights = IF transport = "atx" THEN << >>
                      ELSE IF loaded
                           THEN [b \in 1..bus_count |->
                                    DaliBusEmulator_new_with_config(LoadedConfig[b])]
                      ELSE [b \in 1..bus_count |-> DaliBusEmulator_new(light_count)]
          /\ saved = IF loaded THEN LoadedConfig ELSE << >>
    /\ retained = << >>
    /\ session = "running"
    /\ handled = 0
    /\ last = [cmd |-> "none", bus |-> 0, outcome |-> "none",
               it |-> [bus |-> 0, low |-> -1, mid |-> -1, high |-> -1, short_address |-> 0],
               oracle |-> IdleOracle, found |-> -1, frames |-> << >>,
               before |-> << >>, start |-> << >>, ballasts |-> << >>]

\* The command ends with an error Status, or in a panic, or never.
SearchFailed(cmd, t, bs, e) ==
    /\ buses' = bs
    /\ lights' = t.lights
    /\ session' = IF e = "panic" THEN "aborted" ELSE IF e = "hang" THEN "hung" ELSE "running"
    /\ handled' = handled + 1
    /\ last' = [last EXCEPT !.cmd = cmd,
                            !.outcome = IF e \in {"panic", "hang"} THEN e ELSE "err",
                            !.oracle = t.oracle,
                            !.found = -1, !.frames = t.frames, !.ballasts = lights]
    /\ UNCHANGED <<retained, saved>>

\* find_lights up to its loop: check_bus, bus.channels.clear() for All,
\* and DaliBusIterator::new.
SearchStart(cmd, selection) ==
    /\ session = "running"
    /\ handled < MaxSearches
    /\ \E rnd \in SearchDraws, oracle \in SearchOracles :
          LET searching(cleared, device_iterator) ==
                  IF ~device_iterator.ok
                  THEN SearchFailed(cmd, device_iterator.t, cleared, device_iterator.e)
                  ELSE /\ buses' = cleared
                       /\ lights' = device_iterator.t.lights
                       /\ session' = "searching"
                       /\ last' = [cmd |-> cmd, bus |-> 0, outcome |-> "searching",
                                   it |-> device_iterator.s,
                                   oracle |-> device_iterator.t.oracle, found |-> -1,
                                   frames |-> device_iterator.t.frames,
                                   before |-> buses, start |-> lights,
                                   ballasts |-> lights]
                       /\ UNCHANGED <<retained, saved, handled>>
              clearing(checked, cleared) ==
                  searching(cleared,
                            DaliBusIterator_new(checked.t, 0,
                                                IF selection = "All" THEN 0 ELSE 255))
              starting(checked) ==
                  IF ~checked.ok
                  THEN SearchFailed(cmd, checked.t, checked.buses, checked.e)
                  ELSE clearing(checked,
                                IF selection = "All"
                                THEN [checked.buses EXCEPT ![1].channels = << >>]
                                ELSE checked.buses)
          IN  starting(check_bus(Transport(oracle, Value8(32), rnd), buses, 0))
    /\ UNCHANGED <<transport, overflow_checks>>

SearchAll == SearchStart("FindAllLights", "All")

SearchNew == SearchStart("FindNewLights", "WithoutShortAddress")

\* One turn of while find_next_device()?.is_some(): the device found is
\* given the first short address no channel has, the channel is pushed and
\* the configuration published; the end of the sequence ends the command.
SearchStep ==
    /\ session = "searching"
    /\ LET pushed(programmed, found, short_address, bs) ==
               /\ buses' = bs
               /\ lights' = programmed.t.lights
               /\ retained' = bs
               /\ last' = [last EXCEPT !.it = found.s, !.found = short_address,
                                       !.oracle = programmed.t.oracle,
                                       !.frames = programmed.t.frames,
                                       !.ballasts = lights]
               /\ UNCHANGED <<saved, session, handled>>
           pushing(programmed, found, short_address) ==
               IF ~programmed.ok
               THEN SearchFailed(last.cmd, programmed.t, buses, programmed.e)
               ELSE pushed(programmed, found, short_address,
                           [buses EXCEPT ![1].channels =
                               Append(@, Channel(Desc("Light ", short_address),
                                                 short_address))])
           programming(found, short_address) ==
               IF short_address = 64 THEN SearchFailed(last.cmd, found.t, buses, "panic")
               ELSE pushing(program_short_address(found.t, 0, short_address),
                            found, short_address)
           next(found) ==
               IF ~found.ok THEN SearchFailed(last.cmd, found.t, buses, found.e)
               ELSE IF found.v = -1
               THEN /\ lights' = found.t.lights
                    /\ retained' = buses
                    /\ saved' = buses
                    /\ session' = "running"
                    /\ handled' = handled + 1
                    /\ last' = [last EXCEPT !.outcome = "ok", !.it = found.s,
                                            !.oracle = found.t.oracle,
                                            !.found = -1, !.frames = found.t.frames,
                                            !.ballasts = lights]
                    /\ UNCHANGED buses
               ELSE programming(found, first_unused_short_address(buses[1]))
       IN  next(find_next_device(Transport(last.oracle, Value8(32), IdleDraw), last.it))
    /\ UNCHANGED <<transport, overflow_checks>>

SearchNext == SearchAll \/ SearchNew \/ SearchStep

\* Both controllers answer every frame within a bounded time, so the loop
\* takes its next turn.
SearchSpec == SearchInit /\ [][SearchNext]_vars /\ WF_vars(SearchStep)

---------------------------------------------------------------------------
(* Vocabulary of the properties.                                           *)

CommandKinds ==
    {"SetLightBrightness", "SetGroupBrightness", "UpdateBusStatus", "RenameBus",
     "RenameLight", "RenameGroup", "NewGroup", "MatchGroup", "RemoveGroup",
     "AddToGroup", "RemoveFromGroup", "FindAllLights", "FindNewLights",
     "QueryLightStatus", "RemoveShortAddress"}

FindKinds == {"FindAllLights", "FindNewLights"}

\* Positions of the last command's publications on a topic.
Published(topic) == {i \in 1..Len(last.pubs) : last.pubs[i].topic = topic}

StatusOK == \E i \in Published("Status") : last.pubs[i].text = "OK"
StatusError == \E i \in Published("Status") : last.pubs[i].text # "OK"
StatusIs(text) == \E i \in Published("Status") : last.pubs[i].text = text

Logged_(x) == \E i \in 1..Len(last.log) : last.log[i] = x
SentFrame == Logged_("frame")
AskedStatus == Logged_("status")
TransportFailed == Logged_("error")

\* The bus the last command named is a bus of the configuration.
OnBus == last.bus >= 0 /\ HasBus(last.before, last.bus)

MembersAreChannels(b) ==
    \A g \in 1..Len(b.groups) : \A m \in 1..Len(b.groups[g].members) :
        get_channel_index(b, b.groups[g].members[m]) # 0

ChannelsWellFormed(b) ==
    /\ \A i \in 1..Len(b.channels) : b.channels[i].short_address \in 0..63
    /\ \A i, j \in 1..Len(b.channels) :
          i # j => b.channels[i].short_address # b.channels[j].short_address

GroupsWellFormed(b) ==
    /\ \A i \in 1..Len(b.groups) : b.groups[i].group_address \in 0..15
    /\ \A i, j \in 1..Len(b.groups) :
          i # j => b.groups[i].group_address # b.groups[j].group_address

---------------------------------------------------------------------------
(* The properties.                                                         *)

\* C1: after a successful AddToGroup, RemoveFromGroup, MatchGroup,
\* RemoveGroup, NewGroup, FindAllLights, FindNewLights or RemoveShortAddress
\* every member listed in a group of a bus is the short address of a
\* channel of that bus.  The program does not keep this: AddToGroup lists
\* any address the device side confirms, FindAllLights clears the channels
\* and keeps the members, RemoveShortAddress removes only the memberships
\* the device reports.
C1_MembersAreChannels ==
    (/\ last.cmd \in {"AddToGroup", "RemoveFromGroup", "MatchGroup", "RemoveGroup",
                      "NewGroup", "FindAllLights", "FindNewLights", "RemoveShortAddress"}
     /\ last.outcome = "ok")
    => \A b \in 1..Len(buses) : MembersAreChannels(buses[b])

\* C2: in every configuration the dispatcher reaches, the channel short
\* addresses of a bus are pairwise distinct and in 0..63, and its group
\* addresses are pairwise distinct and in 0..15.  The program does not keep
\* the group part: AddToGroup and MatchGroup create a group with whatever
\* group address the command carries.
C2_AddressesWellFormed ==
    \A b \in 1..Len(buses) : ChannelsWellFormed(buses[b]) /\ GroupsWellFormed(buses[b])

\* C3: every command, of every kind and with every field value, is followed
\* by exactly one publication on the Status topic.  The program does not
\* keep this: a short address of 64 or more in SetLightBrightness (a group
\* of 16 or more in SetGroupBrightness) panics and ends the process before
\* any Status.
C3_ExactlyOneStatus ==
    last.cmd \in CommandKinds => Cardinality(Published("Status")) = 1


\* C4 as stated: the Status of a command is "OK" only when the command
\* succeeded; if any bus transaction of the command fails, the Status is an
\* error string and never "OK".  QueryLightStatus does otherwise.
C4_FailedTransactionNeverOK ==
    (last.cmd \in CommandKinds /\ TransportFailed) => (StatusError /\ ~StatusOK)

\* What QueryLightStatus published on its Reply topic says failure.
ReplySaysFailure == \E i \in Published("Reply") : last.pubs[i].reply.failure

\* C4, amended: the Status of a command is "OK" exactly when its handler
\* returned success.  For every command but QueryLightStatus a transport
\* error in any bus transaction or bus status query of the command makes
\* the Status an error string; QueryLightStatus reports the failed
\* transaction as failure in its Reply and then publishes "OK".
C4_StatusReportsHandlerResult ==
    /\ last.cmd \in CommandKinds => (StatusOK <=> last.outcome = "ok")
    /\ last.cmd \in CommandKinds => ~(StatusOK /\ StatusError)
    /\ (last.cmd \in CommandKinds \ {"QueryLightStatus"} /\ TransportFailed)
          => (StatusError /\ ~StatusOK)
    /\ (last.cmd = "QueryLightStatus" /\ TransportFailed)
          => (ReplySaysFailure /\ StatusOK /\ ~StatusError)

\* C4: an AddToGroup one of whose transactions returned an error has
\* published an error Status.
C4_Witness ==
    /\ last.cmd = "AddToGroup"
    /\ TransportFailed
    /\ SentFrame
    /\ StatusIs("Transport")

RECURSIVE TotalChannels(_)
TotalChannels(bs) ==
    IF bs = << >> THEN 0 ELSE Len(bs[1].channels) + TotalChannels(Tail(bs))

\* The publications of a search: a Config for each light programmed, each
\* with one channel more than the one before and the last of them the
\* model as it is, then the Status if the search came to an end, then the
\* Config of a search that succeeded.
SearchPublications ==
    LET n == Len(last.pubs)
        progress == IF last.outcome = "ok" THEN n - 2
                    ELSE IF last.outcome = "err" THEN n - 1 ELSE n
    IN  /\ progress >= 0
        /\ \A i \in 1..progress : last.pubs[i].topic = "Config"
        /\ \A i \in 2..progress :
              TotalChannels(last.pubs[i].config)
                  = TotalChannels(last.pubs[i - 1].config) + 1
        /\ progress > 0 => last.pubs[progress].config = buses
        /\ last.outcome \in {"ok", "err"} => last.pubs[progress + 1].topic = "Status"
        /\ last.outcome = "ok" =>
              /\ last.pubs[n].topic = "Config"
              /\ last.pubs[n].config = buses

C6_PublishedAndSaved ==
    (/\ last.cmd \in {"RenameBus", "RenameLight", "RenameGroup", "NewGroup",
                      "AddToGroup", "RemoveFromGroup", "MatchGroup", "RemoveGroup",
                      "FindAllLights", "FindNewLights", "RemoveShortAddress"}
     /\ last.outcome = "ok")
    => /\ Published("Config") # {}
       /\ retained = buses
       /\ saved = buses

\* C7 as stated: SetLightBrightness, SetGroupBrightness, UpdateBusStatus and
\* QueryLightStatus never cause a Config publication.  UpdateBusStatus does.
C7_NoConfigPublication ==
    last.cmd \in {"SetLightBrightness", "SetGroupBrightness", "UpdateBusStatus",
                  "QueryLightStatus"}
    => Published("Config") = {}

\* C7, amended: SetLightBrightness, SetGroupBrightness and QueryLightStatus
\* never cause a Config publication.  UpdateBusStatus publishes the
\* configuration once, after its "OK", and saves it when it succeeds, and
\* publishes no Config when it fails.
C7_ConfigOnlyAfterStatusUpdate ==
    /\ last.cmd \in {"SetLightBrightness", "SetGroupBrightness", "QueryLightStatus"}
          => (Published("Config") = {} /\ buses = last.before)
    /\ (last.cmd = "UpdateBusStatus" /\ last.outcome = "ok")
          => /\ Len(last.pubs) = 2
             /\ last.pubs[1].topic = "Status"
             /\ last.pubs[2].topic = "Config"
             /\ last.pubs[2].config = buses
             /\ retained = buses
             /\ saved = buses
    /\ (last.cmd = "UpdateBusStatus" /\ last.outcome # "ok")
          => Published("Config") = {}

\* C7: an UpdateBusStatus that changed the status of a bus and published
\* the configuration with it.
C7_Witness ==
    /\ last.cmd = "UpdateBusStatus"
    /\ last.outcome = "ok"
    /\ Published("Config") # {}
    /\ buses[1].status # last.before[1].status

\* The error check_bus_status names for a status.
NamedError(status) ==
    CASE status = "NoPower" -> "BusHasNoPower"
      [] status = "Overloaded" -> "BusOverloaded"
      [] status = "Unknown" -> "InvalidBusStatus"
      [] OTHER -> "none"

\* C8 as stated: AddToGroup, RemoveFromGroup, MatchGroup, RemoveGroup,
\* RemoveShortAddress, FindAllLights and FindNewLights first query the
\* transport for the status of their bus, and fail with the error named for
\* it, without sending a frame, if it is not Active.  Only the two searches
\* query the transport.
C8_QueriesStatusFirst ==
    (/\ last.cmd \in {"AddToGroup", "RemoveFromGroup", "MatchGroup", "RemoveGroup",
                      "RemoveShortAddress", "FindAllLights", "FindNewLights"}
     /\ OnBus)
    => /\ last.log # << >>
       /\ last.log[1] = "status"
       /\ buses[last.bus + 1].status # "Active" => (StatusError /\ ~SentFrame)

\* C8, amended: FindAllLights and FindNewLights first query the transport
\* for the status of every bus and store it.  AddToGroup, MatchGroup,
\* RemoveGroup, RemoveShortAddress and RemoveFromGroup never query the
\* transport: they consult the status stored in the model (RemoveFromGroup
\* only for a listed member of an existing group, and else ends without a
\* frame and without a change).  Either way a status that is not Active
\* fails the command with BusHasNoPower, BusOverloaded or InvalidBusStatus
\* and no DALI frame is sent.
C8_StatusCheckedBeforeFrames ==
    /\ last.cmd \in FindKinds =>
          /\ last.log # << >>
          /\ last.log[1] = "status"
          /\ (OnBus /\ ~TransportFailed /\ buses[last.bus + 1].status # "Active")
                => /\ StatusIs(NamedError(buses[last.bus + 1].status))
                   /\ ~SentFrame
    /\ last.cmd \in {"AddToGroup", "MatchGroup", "RemoveGroup", "RemoveShortAddress",
                     "RemoveFromGroup"}
          => ~AskedStatus
    /\ (/\ last.cmd \in {"AddToGroup", "MatchGroup", "RemoveGroup", "RemoveShortAddress"}
        /\ OnBus
        /\ last.before[last.bus + 1].status # "Active")
          => /\ StatusIs(NamedError(last.before[last.bus + 1].status))
             /\ ~SentFrame
    /\ (/\ last.cmd = "RemoveFromGroup"
        /\ OnBus
        /\ last.before[last.bus + 1].status # "Active")
          => /\ ~SentFrame
             /\ buses = last.before
             /\ \/ StatusIs(NamedError(last.before[last.bus + 1].status))
                \/ StatusIs("NoSuchGroup")
                \/ StatusOK

\* C8: an AddToGroup on a bus whose stored status is NoPower has failed with
\* BusHasNoPower, with no status query and no frame.
C8_Witness ==
    /\ last.cmd = "AddToGroup"
    /\ OnBus
    /\ last.before[last.bus + 1].status = "NoPower"
    /\ StatusIs("BusHasNoPower")
    /\ last.log = << >>

\* C9: while the status of a bus is Unknown, RenameLight, RenameGroup,
\* NewGroup, AddToGroup, RemoveFromGroup, MatchGroup, RemoveGroup,
\* FindAllLights, FindNewLights and RemoveShortAddress are rejected with an
\* error and leave the model as it is.  The program does not keep this:
\* the renames and NewGroup do not look at the status, AddToGroup creates
\* its group before it looks, and the searches replace the status first.
C9_UnknownBusRejects ==
    (/\ last.cmd \in {"RenameLight", "RenameGroup", "NewGroup", "AddToGroup",
                      "RemoveFromGroup", "MatchGroup", "RemoveGroup",
                      "FindAllLights", "FindNewLights", "RemoveShortAddress"}
     /\ OnBus
     /\ last.before[last.bus + 1].status = "Unknown")
    => /\ StatusError
       /\ ~StatusOK
       /\ buses = last.before

\* C10: a payload that does not parse causes an error string on the Status
\* topic and nothing else: no frame, no change of the model, no Config.
\* The program only logs it.
C10_InvalidPayloadReported ==
    last.cmd = "InvalidPayload"
    => /\ StatusError
       /\ ~SentFrame
       /\ buses = last.before
       /\ Published("Config") = {}

\* The last command sent exactly one frame and a byte came back for it.
AnsweredByte ==
    Len(last.frames) = 1 /\ last.frames[1][3].k = "Value8"

C11_WitnessFailure ==
    /\ last.cmd = "QueryLightStatus"
    /\ Len(last.frames) = 1
    /\ last.frames[1][3] = RNone
    /\ last.pubs[1].reply = QueryLightReply(last.bus, last.address, TRUE, 0)

\* A frame of the last command came back as a transport error.
FrameFailed == \E i \in 1..Len(last.frames) : last.frames[i][3].k = "Err"

\* C12: a command that fails because one of its bus transactions returned
\* a transport error leaves the in-memory configuration as it was before
\* the command.  The program does not keep this: AddToGroup creates its
\* group before its first frame, FindAllLights clears the channels before
\* the search, a search keeps the channels it added before the failing
\* frame, and RemoveShortAddress and MatchGroup keep the member changes
\* made before it.
C12_FailedCommandKeepsModel ==
    (last.cmd \in CommandKinds /\ last.outcome = "err" /\ FrameFailed)
    => buses = last.before

\* C12: a FindAllLights whose first frame failed has emptied the channel
\* list of a bus that had two channels.
C12_ClearedBeforeFailure ==
    /\ last.cmd = "FindAllLights"
    /\ last.outcome = "err"
    /\ FrameFailed
    /\ Len(last.frames) = 1
    /\ OnBus
    /\ Len(last.before[last.bus + 1].channels) = 2
    /\ buses[last.bus + 1].channels = << >>

\* The channels a search of n ballasts is to leave: short addresses
\* 0..n-1, each described "Light k".
ChannelsInOrder(n) == [k \in 1..n |-> Channel(Desc("Light ", k - 1), k - 1)]

\* C13: FindAllLights on an emulated bus with N ballasts ends with Status
\* "OK" and leaves the bus with exactly the N channels 0..N-1, described
\* "Light k", whatever random addresses the ballasts draw on RANDOMISE.
\* The program does not keep this: two ballasts that draw the same random
\* address are selected by the same search and programmed with the same
\* short address, and the search ends with one channel for the two.
C13_FindAllLightsFindsAll ==
    (last.cmd = "FindAllLights" /\ transport = "emulator" /\ OnBus)
    => /\ StatusOK
       /\ last.outcome = "ok"
       /\ buses[last.bus + 1].channels = ChannelsInOrder(Len(last.ballasts[last.bus + 1]))

\* The ballasts of an emulated bus that take a frame with first byte b1 as
\* addressed to them.
Reached(ls, b1) == {i \in 1..Len(ls) : Light_addressed(ls[i], b1)}

\* C14: once a search has commissioned the channels of an emulated bus,
\* a level frame and a command frame addressed to the short address of a
\* channel each reach exactly one ballast, the same one; and a
\* SetLightBrightness for a channel of the bus sets the brightness of one
\* ballast to the value sent and changes no other.  The program does not
\* keep this: the emulated ballast stores the byte of PROGRAM SHORT ADDRESS,
\* 2a + 1, as its short address and compares it with b1 >> 1, so no frame
\* for address 0 reaches a ballast and a frame for address 1 reaches the
\* ballast commissioned as channel 0.
C14_FrameReachesItsBallast ==
    /\ (/\ transport = "emulator"
        /\ last.cmd \in FindKinds
        /\ last.outcome = "ok"
        /\ OnBus)
       => \A c \in 1..Len(buses[last.bus + 1].channels) :
             LET a == buses[last.bus + 1].channels[c].short_address
             IN  /\ Cardinality(Reached(lights[last.bus + 1], a * 2)) = 1
                 /\ Reached(lights[last.bus + 1], a * 2 + 1)
                       = Reached(lights[last.bus + 1], a * 2)
    /\ (/\ transport = "emulator"
        /\ last.cmd = "SetLightBrightness"
        /\ last.outcome = "ok"
        /\ OnBus
        /\ get_channel_index(last.before[last.bus + 1], last.address) # 0)
       => /\ Len(last.frames) = 1
          /\ last.frames[1][1] = last.address * 2
          /\ \E i \in 1..Len(last.ballasts[last.bus + 1]) :
                lights[last.bus + 1]
                   = [last.ballasts[last.bus + 1] EXCEPT ![i].brightness = last.frames[1][2]]

\* C14: a SetLightBrightness for channel 0 of a bus whose two ballasts were
\* commissioned as channels 0 and 1 has left both ballasts dark.
C14_NoBallastReached ==
    /\ transport = "emulator"
    /\ last.cmd = "SetLightBrightness"
    /\ last.outcome = "ok"
    /\ OnBus
    /\ last.address = 0
    /\ Len(last.before[last.bus + 1].channels) = 2
    /\ last.frames = <<<<0, 254, RNone>>>>
    /\ \A i \in 1..Len(lights[last.bus + 1]) :
          /\ lights[last.bus + 1][i].brightness = 0
          /\ lights[last.bus + 1][i].short_address \in {1, 3}

\* How often short address a is listed in group g of a bus (0 if the bus
\* has no such group).
Occurrences(b, g, a) ==
    Cardinality({<<i, m>> \in (1..Len(b.groups)) \X (0..63) :
                    /\ b.groups[i].group_address = g
                    /\ m + 1 <= Len(b.groups[i].members)
                    /\ b.groups[i].members[m + 1] = a})

\* C15: on an Active emulated bus AddToGroup(bus, g, a) for an existing
\* channel a and a group g succeeds, leaves bit g set in the membership
\* mask of the ballast at a and lists a in group g of the model exactly
\* once, the first time and every time after.  The program does not keep
\* this: the emulated ballast does not answer QUERY GROUPS, so the
\* verification of add_to_group_and_verify ends with NoResult and the
\* command fails with the ballast in the group and the model without it.
C15_AddToGroupOnEmulator ==
    (/\ transport = "emulator"
     /\ last.cmd = "AddToGroup"
     /\ OnBus
     /\ last.before[last.bus + 1].status = "Active"
     /\ get_channel_index(last.before[last.bus + 1], last.address) # 0
     /\ last.group \in 0..15)
    => /\ last.outcome = "ok"
       /\ StatusOK
       /\ Occurrences(buses[last.bus + 1], last.group, last.address) = 1
       /\ \E i \in Reached(lights[last.bus + 1], last.address * 2 + 1) :
             BitSet(lights[last.bus + 1][i].group_mask, last.group)

\* C15: an AddToGroup on the emulator that set the bit in the ballast and
\* failed with NoResult, the model not listing the address.
C15_DeviceAheadOfModel ==
    /\ transport = "emulator"
    /\ last.cmd = "AddToGroup"
    /\ OnBus
    /\ StatusIs("NoResult")
    /\ last.group = 1
    /\ Occurrences(buses[last.bus + 1], 1, last.address) = 0
    /\ \E i \in Reached(lights[last.bus + 1], last.address * 2 + 1) :
          /\ BitSet(lights[last.bus + 1][i].group_mask, 1)
          /\ ~BitSet(last.ballasts[last.bus + 1][i].group_mask, 1)

\* A description matches the pattern of the last command: the pattern is
\* found in it ("Light 0" in "Light 0", "X" in a light renamed "X").
Matches(description) ==
    \/ last.text = "Light 0" /\ description = Desc("Light ", 0)
    \/ last.text = "X" /\ description.p = "X"

\* C16: after a successful MatchGroup(bus, g, p) group g exists on the bus
\* and a channel of the bus is a member of group g exactly if its
\* description matches p.
C16_MembersAreTheMatches ==
    (last.cmd = "MatchGroup" /\ last.outcome = "ok" /\ OnBus)
    => /\ get_group_index(buses[last.bus + 1], last.group) # 0
       /\ \A c \in 1..Len(buses[last.bus + 1].channels) :
             (Occurrences(buses[last.bus + 1], last.group,
                          buses[last.bus + 1].channels[c].short_address) > 0)
             <=> Matches(buses[last.bus + 1].channels[c].description)

\* C16: a MatchGroup for "Light 0" that created group 1, added channel 0
\* to it after the ballast confirmed the membership, and left channel 1 out.
C16_Witness ==
    /\ last.cmd = "MatchGroup"
    /\ last.outcome = "ok"
    /\ OnBus
    /\ last.group = 1
    /\ last.text = "Light 0"
    /\ get_group_index(last.before[last.bus + 1], 1) = 0
    /\ Len(buses[last.bus + 1].channels) = 2
    /\ Occurrences(buses[last.bus + 1], 1, 0) = 1
    /\ Occurrences(buses[last.bus + 1], 1, 1) = 0
    /\ SentFrame

\* The last command has the kind and the fields of the command before it,
\* which succeeded.
Repeated ==
    /\ last.earlier.outcome = "ok"
    /\ last.earlier = [Earlier(last) EXCEPT !.outcome = "ok"]

\* C17: a MatchGroup(bus, g, p) run again right after it succeeded, with
\* the same pattern and the channel descriptions unchanged, succeeds,
\* sends no frame at all (no add to group, no remove from group) and
\* leaves the model as it was.
C17_SecondMatchIsIdle ==
    (last.cmd = "MatchGroup" /\ Repeated)
    => /\ last.frames = << >>
       /\ buses = last.before
       /\ last.outcome = "ok"
       /\ StatusOK

\* C17: the second of two MatchGroup commands for "Light 0" and group 1:
\* the first added channel 0 to the group, the second found nothing to do.
C17_Witness ==
    /\ last.cmd = "MatchGroup"
    /\ Repeated
    /\ OnBus
    /\ last.group = 1
    /\ last.text = "Light 0"
    /\ Occurrences(buses[last.bus + 1], 1, 0) = 1
    /\ Occurrences(saved[last.bus + 1], 1, 0) = 1
    /\ last.frames = << >>

\* C18: for a bus with a channel a and no channel b, change_short_address
\* (a -> b) and then (b -> a), both returning Ok, leave the bus as it was
\* before the two calls: the same channels in the same order, the same
\* descriptions, the same groups.  The program does not keep the order:
\* each call removes the channel from its place and pushes it at the end.
C18_ChangeAndBackRestores ==
    (/\ last.call.outcome = "ok"
     /\ last.earlier.outcome = "ok"
     /\ last.call.existing_address = last.earlier.new_address
     /\ last.call.new_address = last.earlier.existing_address
     /\ get_channel_index(last.earlier.before[1], last.earlier.existing_address) # 0
     /\ get_channel_index(last.earlier.before[1], last.earlier.new_address) = 0)
    => buses = last.earlier.before

\* C18: channels 0 and 1 in that order, after 0 -> 2 and 2 -> 0, are
\* channels 1 and 0 in that order, each with the description it had.
C18_MovedToTheEnd ==
    /\ last.call.outcome = "ok"
    /\ last.earlier.outcome = "ok"
    /\ last.earlier.existing_address = 0
    /\ last.earlier.new_address = 2
    /\ last.call.existing_address = 2
    /\ last.call.new_address = 0
    /\ last.earlier.before[1].channels
          = <<Channel(Desc("Lamp ", 0), 0), Channel(Desc("Lamp ", 1), 1)>>
    /\ buses[1].channels
          = <<Channel(Desc("Lamp ", 1), 1), Channel(Desc("Lamp ", 0), 0)>>
    /\ buses[1].groups = last.earlier.before[1].groups

C19_NeverSucceedsOnEmulator ==
    (/\ transport = "emulator"
     /\ last.cmd = "RemoveShortAddress"
     /\ OnBus
     /\ last.before[last.bus + 1].status = "Active"
     /\ get_channel_index(last.before[last.bus + 1], last.address) # 0)
    => /\ StatusIs("NoResult")
       /\ buses = last.before
       /\ lights = last.ballasts

\* The frames of a search: COMPARE, and the three that update the search
\* address.  A call of find_next_device sends these and, when it finds no
\* device, a TERMINATE; program_short_address sends others between calls.
IsCompare(frame) == frame[1] = DALI_COMPARE - 256
IsUpdate(frame) ==
    frame[1] \in {DALI_SEARCHADDRH - 256, DALI_SEARCHADDRM - 256, DALI_SEARCHADDRL - 256}
InSearch(frame) == IsCompare(frame) \/ IsUpdate(frame)

\* The positions around the calls of find_next_device in the frames of the
\* last command: 0, those of the other frames, and the one past the end.
Around ==
    {0, Len(last.frames) + 1}
    \cup {i \in 1..Len(last.frames) : ~InSearch(last.frames[i])}

\* A call is named by the position b before its first frame; CallEnd is
\* the position after its last.
IsCall(b) == b < Len(last.frames) /\ InSearch(last.frames[b + 1])
CallEnd(b) ==
    CHOOSE c \in Around : c > b /\ \A k \in (b + 1)..(c - 1) : InSearch(last.frames[k])

\* The cycles of the call from b to e: where a COMPARE decision starts (a
\* COMPARE, asked again up to CompareRetries times while no ballast
\* answers, is one decision) and where a search address update starts.
Decisions(b, e) ==
    {d \in (b + 1)..(e - 1) :
        /\ IsCompare(last.frames[d])
        /\ d = b + 1 \/ ~IsCompare(last.frames[d - 1])}
SearchUpdates(b, e) ==
    {u \in (b + 1)..(e - 1) :
        /\ IsUpdate(last.frames[u])
        /\ u = b + 1 \/ ~IsUpdate(last.frames[u - 1])}

\* Every decision of the call from b to e follows an update of the search
\* address and is at most 1 + CompareRetries COMPARE frames; there are at
\* most 25 cycles, and 24 or 25 if the call returned.  A call returned if
\* a frame follows it (the TERMINATE of a search that found nothing, the
\* PROGRAM SHORT ADDRESS for the device found): the frames of a call that a
\* failed transaction ended are the last of the command.
CallCycles(b, e, decisions, updates) ==
    /\ Cardinality(decisions) <= 25
    /\ Cardinality(updates) <= 25
    /\ \A d \in decisions : d > b + 1 /\ IsUpdate(last.frames[d - 1])
    /\ \A d \in decisions :
          \E k \in 1..(CompareRetries + 1) : d + k = e \/ ~IsCompare(last.frames[d + k])
    /\ e <= Len(last.frames) =>
          /\ Cardinality(decisions) \in {24, 25}
          /\ Cardinality(updates) = Cardinality(decisions)

CallChecked(b, e) == CallCycles(b, e, Decisions(b, e), SearchUpdates(b, e))

\* C20: a call of find_next_device that searches and returns has performed
\* 24 cycles or, with the confirmation cycle, 25: each cycle is one update
\* of the search address followed by one COMPARE decision.  A call that a
\* failed transaction ends has performed at most as many.
C20_SearchCycles ==
    last.cmd \in FindKinds =>
        \A b \in Around : IsCall(b) => CallChecked(b, CallEnd(b))

\* The call that starts after position b returned after n cycles.
ReturnedAfter(b, e, n) ==
    e <= Len(last.frames) /\ Cardinality(Decisions(b, e)) = n

\* C20: a FindAllLights on the emulator that found its two ballasts, one
\* call of find_next_device returning after 24 cycles, one after 25.
C20_Witness ==
    /\ last.cmd = "FindAllLights"
    /\ transport = "emulator"
    /\ last.outcome = "ok"
    /\ Len(buses[last.bus + 1].channels) = 2
    /\ \E b \in Around : IsCall(b) /\ ReturnedAfter(b, CallEnd(b), 24)
    /\ \E b \in Around : IsCall(b) /\ ReturnedAfter(b, CallEnd(b), 25)

----------------------------------------------------------------------------
(* The search address bytes of one iterator.                               *)

SearchSlots == {DALI_SEARCHADDRH - 256, DALI_SEARCHADDRM - 256, DALI_SEARCHADDRL - 256}

\* Frame i of the frames repeats frame i - 1 because that one collided:
\* broadcast_command sending one command again.
IsCollisionRetry(frames, i) ==
    /\ i > 1
    /\ frames[i - 1][1] = frames[i][1]
    /\ frames[i - 1][2] = frames[i][2]
    /\ is_collision(frames[i - 1][3])

\* `sent` are the positions of the frames of one slot: a command that
\* carries the byte of an earlier frame has another command of the slot in
\* between.
SlotChanges(frames, sent) ==
    \A j \in sent : \A i \in sent :
        (i < j /\ frames[i][2] = frames[j][2] /\ ~IsCollisionRetry(frames, j))
            => \E k \in sent : i < k /\ k < j /\ ~IsCollisionRetry(frames, k)

SlotFrames(slot) == {i \in 1..Len(last.frames) : last.frames[i][1] = slot}

\* C21: within one commissioning iterator (a FindAllLights or FindNewLights
\* command creates one and uses it for all its find_next_device calls) a
\* SEARCHADDRH, SEARCHADDRM or SEARCHADDRL command is sent only when its byte
\* differs from the byte sent last for that slot, or when nothing was sent
\* for the slot yet.  A command that broadcast_command sends again after a
\* collision is the same command, not another one.
C21_SearchBytesChange ==
    last.cmd \in FindKinds =>
        \A slot \in SearchSlots : SlotChanges(last.frames, SlotFrames(slot))

\* C21: a search on the emulator that found both ballasts in two calls; it
\* sent the low byte more often than the high byte, which it sent more than
\* once.
C21_Witness ==
    /\ last.cmd = "FindAllLights"
    /\ transport = "emulator"
    /\ last.outcome = "ok"
    /\ Len(buses[last.bus + 1].channels) = 2
    /\ Cardinality(SlotFrames(DALI_SEARCHADDRH - 256)) > 1
    /\ Cardinality(SlotFrames(DALI_SEARCHADDRH - 256))
         < Cardinality(SlotFrames(DALI_SEARCHADDRL - 256))

\* C22: an operation of the DALI manager that is given a short address of
\* 64 or more returns an error and sends no frame, and it does not end the
\* process; seen from the dispatcher, a command that carries such an
\* address for a bus of the configuration neither sends a frame nor
\* panics.  The program does not keep this: set_light_brightness_async
\* converts the address with to_light_short_address, which panics.
C22_AddressOutOfRangeRejected ==
    (/\ last.cmd \in {"SetLightBrightness", "QueryLightStatus", "AddToGroup",
                      "RemoveFromGroup", "RemoveShortAddress"}
     /\ OnBus
     /\ last.address >= 64)
    => /\ last.outcome # "panic"
       /\ last.frames = << >>

\* C23: an operation that is given a group address of 16 or more returns an
\* error and sends no frame; seen from the dispatcher, a command that
\* carries such a group for a bus of the configuration neither sends a
\* frame nor panics.  The program does not keep this:
\* set_group_brightness_async converts the group with
\* to_light_group_address, which panics, and add_to_group sends
\* ADD_TO_GROUP0 + group to the ballast whatever the group is.
C23_GroupOutOfRangeRejected ==
    (/\ last.cmd \in {"SetGroupBrightness", "AddToGroup", "RemoveFromGroup"}
     /\ OnBus
     /\ last.group >= 16)
    => /\ last.outcome # "panic"
       /\ last.frames = << >>

----------------------------------------------------------------------------
(* The sessions of MqttDali::run.                                          *)

\* The positions of the session's events of a kind.
SessionEvents(topic) == {i \in 1..Len(last.events) : last.events[i].topic = topic}

\* C24: in every session, the first and each one after a reconnect, Active
\* = "true", then the version, then the configuration the model holds are
\* published before the command topic is subscribed to and before any
\* command is processed.
C24_AnnouncedBeforeListening ==
    (session = "running" \/ SessionEvents("Subscribe") # {} \/ SessionEvents("Command") # {})
    => /\ Len(last.events) >= 4
       /\ last.events[1] = TextPub("Active", "true")
       /\ last.events[2] = TextPub("Version", "get_version")
       /\ last.events[3] = ConfigPub(last.start)
       /\ last.events[4] = TextPub("Subscribe", "Command")
       /\ \A i \in SessionEvents("Command") : i > 4

\* C24: a session after a reconnect has processed a command, as the
\* session before it did.
C24_Witness ==
    /\ session = "running"
    /\ last.ended # << >>
    /\ handled = 2
    /\ Cardinality(SessionEvents("Command")) = 1
    /\ Cardinality(SessionEvents("Status")) = 1

\* C25: whenever a session ends with an error, run starts a new session
\* with the configuration the failed one ended with; the error does not
\* end the program.
C25_SessionErrorReconnects ==
    (session = "failed")
        ~> (session = "connecting" /\ last.events = << >> /\ buses = last.ended)

\* C25: a new session is about to start after one that failed while it
\* published the Status of a command that changed the model.
C25_Witness ==
    /\ session = "connecting"
    /\ last.ended = buses
    /\ retained # << >>
    /\ retained # buses
    /\ handled > 0

----------------------------------------------------------------------------
(* The command envelope.                                                   *)

\* The variants of DaliCommand, which serde accepts by their "command" tag.
DaliCommand ==
    {"SetLightBrightness", "SetGroupBrightness", "UpdateBusStatus", "RenameBus",
     "RenameLight", "RenameGroup", "NewGroup", "AddToGroup", "MatchGroup",
     "RemoveGroup", "RemoveFromGroup", "FindAllLights", "FindNewLights",
     "QueryLightStatus", "RemoveShortAddress", "SetLightFadeTime", "SetGroupFadeTime"}

\* C26: every envelope with one of the 17 command names and the fields
\* listed for it is accepted by the parser and dispatched to the operation
\* of that command: while the session takes payloads, every variant the
\* parser accepts has an arm in the dispatcher.  The program does not keep
\* this: the match of run_session has the 15 arms of CommandKinds and none
\* for SetLightFadeTime and SetGroupFadeTime.
C26_EveryVariantDispatched ==
    session = "running" => \A command \in DaliCommand : command \in CommandKinds

----------------------------------------------------------------------------
(* RemoveGroup.                                                            *)

\* The group the last command named, as the model held it before the
\* command (index 0: there was none).
GroupBefore == get_group_index(last.before[last.bus + 1], last.group)
MembersBefore == last.before[last.bus + 1].groups[GroupBefore].members

\* The last command sent `command` to short address a.
SentTo(a, command) ==
    \E i \in 1..Len(last.frames) :
        last.frames[i][1] = 2 * a + 1 /\ last.frames[i][2] = command

\* C27: after a successful RemoveGroup of a group g in 0..15 the group is
\* absent from the model, REMOVE FROM GROUP g was sent to every member, and
\* on the emulator every ballast whose short address was a member has bit
\* g of its group mask cleared; a RemoveGroup of an existing group that
\* fails leaves the group in the model with all its members.
C27_RemoveGroup ==
    (/\ last.cmd = "RemoveGroup"
     /\ OnBus
     /\ last.group < 16
     /\ GroupBefore # 0)
    => /\ last.outcome = "ok" =>
            /\ get_group_index(buses[last.bus + 1], last.group) = 0
            /\ \A m \in 1..Len(MembersBefore) :
                  /\ SentTo(MembersBefore[m], DALI_REMOVE_FROM_GROUP0 + last.group)
                  /\ transport = "emulator" =>
                        \A l \in 1..Len(lights[last.bus + 1]) :
                            lights[last.bus + 1][l].short_address = MembersBefore[m]
                                => ~BitSet(lights[last.bus + 1][l].group_mask, last.group)
       /\ last.outcome # "ok" => buses = last.before

\* C27: a RemoveGroup on the emulator succeeded for a group whose member's
\* ballast had the bit of the group set.
C27_Witness ==
    /\ last.cmd = "RemoveGroup"
    /\ last.outcome = "ok"
    /\ transport = "emulator"
    /\ GroupBefore # 0
    /\ \E m \in 1..Len(MembersBefore) : \E l \in 1..Len(lights[last.bus + 1]) :
          /\ last.ballasts[last.bus + 1][l].short_address = MembersBefore[m]
          /\ BitSet(last.ballasts[last.bus + 1][l].group_mask, last.group)
          /\ ~BitSet(lights[last.bus + 1][l].group_mask, last.group)

\* A RemoveGroup failed on a frame to a member, and the group is as it was.
C27_WitnessFailure ==
    /\ last.cmd = "RemoveGroup"
    /\ last.outcome = "err"
    /\ TransportFailed
    /\ GroupBefore # 0
    /\ buses = last.before

----------------------------------------------------------------------------
(* The retry loops of the manager, seen in the frames of a command.        *)

\* Frame i is a query for a byte: QUERY GROUPS 0-7 or 8-15 to a short
\* address, which only send_command_to_address_and_get_byte sends.
IsQuery(i) ==
    /\ last.frames[i][1] < 128
    /\ last.frames[i][2] \in {DALI_QUERY_GROUPS_0_7, DALI_QUERY_GROUPS_8_15}

\* Frames i and j carry the same two bytes.
SameFrame(i, j) ==
    /\ last.frames[i][1] = last.frames[j][1]
    /\ last.frames[i][2] = last.frames[j][2]

\* The reply to frame i is neither a byte nor a transport error.
Unanswered(i) == last.frames[i][3].k \notin {"Value8", "Err"}

\* The byte that answered the query `command` of the last command, -1 if
\* none did.
ByteOf(command) ==
    IF \E i \in 1..Len(last.frames) :
          last.frames[i][2] = command /\ last.frames[i][3].k = "Value8"
    THEN (CHOOSE r \in {last.frames[i][3] : i \in
                          {j \in 1..Len(last.frames) : last.frames[j][2] = command}} :
             r.k = "Value8").v
    ELSE -1

\* C28: send_command_to_address_and_get_byte sends its command again while
\* the reply is no byte, and not again once a byte has come back, which it
\* returns (RemoveShortAddress sends REMOVE FROM GROUP g only for the bits g
\* of the two bytes read, and for all of them when it succeeds); it sends
\* the command at most 4 times in all, and NoResult is the outcome exactly
\* when the fourth reply is no byte either.
C28_GetByteRetries ==
    last.cmd \in {"AddToGroup", "RemoveFromGroup", "MatchGroup", "RemoveShortAddress"} =>
        /\ \A i \in 1..Len(last.frames) : IsQuery(i) =>
              /\ ~Unanswered(i) =>
                    (i = Len(last.frames) \/ ~SameFrame(i, i + 1))
              /\ Unanswered(i) =>
                    \/ i < Len(last.frames) /\ SameFrame(i, i + 1)
                    \/ /\ i = Len(last.frames)
                       /\ i >= GetByteRetries
                       /\ \A k \in 1..(GetByteRetries - 1) : SameFrame(i, i - k)
                       /\ StatusIs("NoResult")
              /\ i > GetByteRetries =>
                    \E k \in 1..GetByteRetries : ~SameFrame(i, i - k)
        /\ StatusIs("NoResult") =>
              /\ Len(last.frames) >= GetByteRetries
              /\ IsQuery(Len(last.frames))
              /\ Unanswered(Len(last.frames))
        /\ (last.cmd = "RemoveShortAddress" /\ last.address < 64) =>
              \A g \in 0..15 :
                  /\ SentTo(last.address, DALI_REMOVE_FROM_GROUP0 + g) =>
                        /\ ByteOf(DALI_QUERY_GROUPS_0_7) >= 0
                        /\ ByteOf(DALI_QUERY_GROUPS_8_15) >= 0
                        /\ BitSet(ByteOf(DALI_QUERY_GROUPS_8_15) * 256
                                    + ByteOf(DALI_QUERY_GROUPS_0_7), g)
                  /\ (last.outcome = "ok"
                        /\ BitSet(ByteOf(DALI_QUERY_GROUPS_8_15) * 256
                                    + ByteOf(DALI_QUERY_GROUPS_0_7), g))
                        => SentTo(last.address, DALI_REMOVE_FROM_GROUP0 + g)

\* C28: a RemoveShortAddress got no byte for its first query and a byte for
\* the second try, and for the query after it.
C28_Witness ==
    /\ last.cmd = "RemoveShortAddress"
    /\ Len(last.frames) >= 3
    /\ IsQuery(1) /\ Unanswered(1)
    /\ SameFrame(1, 2) /\ ~Unanswered(2)
    /\ IsQuery(3) /\ ~SameFrame(2, 3)
    /\ ByteOf(DALI_QUERY_GROUPS_0_7) >= 0

\* A query was sent four times without a byte and the command ended with
\* NoResult.
C28_WitnessExhausted ==
    /\ last.cmd = "RemoveShortAddress"
    /\ Len(last.frames) = GetByteRetries
    /\ \A i \in 1..GetByteRetries : IsQuery(i) /\ Unanswered(i)
    /\ StatusIs("NoResult")

----------------------------------------------------------------------------
(* broadcast_command.                                                      *)

IsCollisionReply(reply) == reply.k \in {"ReceiveCollision", "TransmitCollision"}

\* C29: broadcast_command sends its frame again while the reply is a
\* receive or transmit collision and returns the first reply that is none;
\* it sends the frame again at most 300 times and fails with
\* UnexpectedStatus when the reply to the last of them is a collision too;
\* whatever the replies are, the call ends.
C29_BroadcastRetries ==
    /\ [](/\ last.sent <= 1 + CollisionRetries
          /\ last.sent > 0 =>
                last.frame = <<broadcast_b1(last.command),
                               broadcast_b2(last.command, last.parameter),
                               last.frame[3]>>
          /\ session = "sending" =>
                /\ handled = last.sent
                /\ last.sent > 0 => IsCollisionReply(last.frame[3])
          /\ session = "returned" =>
                /\ last.result.ok
                /\ last.result.v = last.frame[3]
                /\ ~IsCollisionReply(last.result.v)
                /\ last.sent = handled + 1
          /\ session = "failed" =>
                /\ ~last.result.ok
                /\ IF IsCollisionReply(last.frame[3])
                   THEN /\ last.result.e = "UnexpectedStatus"
                        /\ last.sent = 1 + CollisionRetries
                        /\ handled = last.sent
                   ELSE /\ last.result.e = "Transport"
                        /\ last.frame[3].k = "Err"
                        /\ last.sent = handled + 1)
    /\ <>(session \in {"returned", "failed"})

\* C29: a call failed with UnexpectedStatus after the first frame and 300
\* more were all answered with a collision.
C29_Witness ==
    /\ session = "failed"
    /\ last.result.e = "UnexpectedStatus"
    /\ last.sent = 1 + CollisionRetries
    /\ handled = 1 + CollisionRetries

\* A call returned the reply to its third frame.
C29_WitnessReturned ==
    /\ session = "returned"
    /\ last.sent = 3
    /\ last.result.v = Value8(255)

----------------------------------------------------------------------------
(* add_to_group_and_verify and remove_from_group_and_verify.               *)

\* The positions of the frames that carry `command` to the address of the
\* last command.
Attempts(command) ==
    {i \in 1..Len(last.frames) :
        last.frames[i][1] = 2 * last.address + 1 /\ last.frames[i][2] = command}

\* The frames of the last command end with a read of the membership mask
\* that comes after all the `attempts` and was answered: a byte for QUERY
\* GROUPS 0-7 at q, then QUERY GROUPS 8-15 up to the last frame, which got a
\* byte; bit g of the two bytes is `member`.
MaskReadAfter(attempts, g, member) ==
    LET n == Len(last.frames)
    IN  /\ attempts # {}
        /\ last.frames[n][2] = DALI_QUERY_GROUPS_8_15
        /\ last.frames[n][3].k = "Value8"
        /\ \E q \in 1..(n - 1) :
              /\ \A i \in attempts : i < q
              /\ last.frames[q][2] = DALI_QUERY_GROUPS_0_7
              /\ last.frames[q][3].k = "Value8"
              /\ \A k \in (q + 1)..n : last.frames[k][2] = DALI_QUERY_GROUPS_8_15
              /\ BitSet(last.frames[n][3].v * 256 + last.frames[q][3].v, g) = member

\* The last command called a verifying operation for a short address and a
\* group in range, and a frame was sent.
Verifying(cmd) ==
    /\ last.cmd = cmd
    /\ OnBus
    /\ last.address < 64
    /\ last.group < 16
    /\ last.frames # << >>

\* C30: add_to_group_and_verify returns success only if a read of the
\* membership mask made after an ADD TO GROUP shows bit g set; it sends ADD
\* TO GROUP at most 8 times and fails with GroupAddFailed when the bit is
\* clear after the eighth.  remove_from_group_and_verify does the same with
\* REMOVE FROM GROUP, the bit clear, 3 attempts and GroupRemoveFailed.
C30_VerifiedGroupChange ==
    /\ Verifying("AddToGroup") =>
          /\ Cardinality(Attempts(DALI_ADD_TO_GROUP0 + last.group)) <= AddRetries
          /\ last.outcome = "ok" =>
                MaskReadAfter(Attempts(DALI_ADD_TO_GROUP0 + last.group), last.group, TRUE)
          /\ StatusIs("GroupAddFailed") =>
                /\ Cardinality(Attempts(DALI_ADD_TO_GROUP0 + last.group)) = AddRetries
                /\ MaskReadAfter(Attempts(DALI_ADD_TO_GROUP0 + last.group),
                                 last.group, FALSE)
    /\ Verifying("RemoveFromGroup") =>
          /\ Cardinality(Attempts(DALI_REMOVE_FROM_GROUP0 + last.group)) <= RemoveRetries
          /\ last.outcome = "ok" =>
                MaskReadAfter(Attempts(DALI_REMOVE_FROM_GROUP0 + last.group),
                              last.group, FALSE)
          /\ StatusIs("GroupRemoveFailed") =>
                /\ Cardinality(Attempts(DALI_REMOVE_FROM_GROUP0 + last.group))
                      = RemoveRetries
                /\ MaskReadAfter(Attempts(DALI_REMOVE_FROM_GROUP0 + last.group),
                                 last.group, TRUE)

\* C30: an AddToGroup sent ADD TO GROUP eight times, read the bit clear
\* each time and failed with GroupAddFailed.
C30_Witness ==
    /\ Verifying("AddToGroup")
    /\ StatusIs("GroupAddFailed")
    /\ Cardinality(Attempts(DALI_ADD_TO_GROUP0 + last.group)) = AddRetries

\* An AddToGroup succeeded on the mask read after its ADD TO GROUP.
C30_WitnessAdded ==
    /\ Verifying("AddToGroup")
    /\ last.outcome = "ok"
    /\ Cardinality(Attempts(DALI_ADD_TO_GROUP0 + last.group)) = 1

\* A RemoveFromGroup sent REMOVE FROM GROUP three times and failed.
C30_WitnessNotRemoved ==
    /\ Verifying("RemoveFromGroup")
    /\ StatusIs("GroupRemoveFailed")
    /\ Cardinality(Attempts(DALI_REMOVE_FROM_GROUP0 + last.group)) = RemoveRetries

\* A RemoveFromGroup succeeded on the mask read after its REMOVE FROM GROUP.
C30_WitnessRemoved ==
    /\ Verifying("RemoveFromGroup")
    /\ last.outcome = "ok"
    /\ Cardinality(Attempts(DALI_REMOVE_FROM_GROUP0 + last.group)) = 1

----------------------------------------------------------------------------
(* The COMPARE decision of the search.                                     *)

IsCompareCall == last.call = "is_random_address_le"

\* The replies to the frames of the last call, in order.
CallReplies == [i \in 1..Len(last.frames) |-> last.frames[i][3]]

\* Every frame of the last call is a COMPARE broadcast.
OnlyCompares ==
    \A i \in 1..Len(last.frames) :
        last.frames[i][1] = DALI_COMPARE - 256 /\ last.frames[i][2] = 0

\* C31 as stated: a COMPARE without reply is asked once more, and the
\* decision is false exactly when that second COMPARE has no reply either.
C31_RetriedOnce ==
    IsCompareCall =>
        /\ Len(last.frames) \in 1..2
        /\ \A i \in 1..(Len(last.frames) - 1) : CallReplies[i] = RNone
        /\ last.ok =>
              (~last.v <=> (Len(last.frames) = 2 /\ CallReplies[2] = RNone))

\* C31: a COMPARE answered by a value or a collision decides "random <=
\* search" at once; a COMPARE without reply is asked again, up to
\* CompareRetries times, and the decision is false exactly when none of the
\* 1 + CompareRetries COMPAREs was answered.
C31_CompareDecision ==
    IsCompareCall =>
        /\ OnlyCompares
        /\ Len(last.frames) \in 1..(1 + CompareRetries)
        /\ \A i \in 1..(Len(last.frames) - 1) : CallReplies[i] = RNone
        /\ last.ok <=> CallReplies[Len(last.frames)] # TransportErr
        /\ last.ok =>
              /\ last.v <=> CallReplies[Len(last.frames)] # RNone
              /\ ~last.v => Len(last.frames) = 1 + CompareRetries

\* C31: the third COMPARE is the first that a ballast answers, and the
\* decision is true.
C31_Witness ==
    /\ IsCompareCall
    /\ last.ok /\ last.v
    /\ Len(last.frames) = 3
    /\ CallReplies[3] = ReceiveCollision

\* C31: no COMPARE of the three is answered, and the decision is false.
C31_WitnessFalse ==
    /\ IsCompareCall
    /\ last.ok /\ ~last.v
    /\ CallReplies = <<RNone, RNone, RNone>>

----------------------------------------------------------------------------
(* The fade time of a light or a group.                                    *)

IsFadeCall == last.call \in {"set_light_fade_time", "set_group_fade_time"}

\* The target of the last call is a short address or a group address.
TargetInRange ==
    IF last.call = "set_light_fade_time" THEN last.target < 64 ELSE last.target < 16

\* The first byte of a command frame for the target of the last call.
TargetByte ==
    IF last.call = "set_light_fade_time" THEN last.target * 2 + 1
    ELSE 128 + last.target * 2 + 1

\* The frames of the last call that are the DTR broadcast: a collision
\* makes broadcast_command send it again.
DtrFrames ==
    {i \in 1..Len(last.frames) :
        last.frames[i][1] = DALI_DATA_TRANSFER_REGISTER0 - 256}

\* The commands that follow the DTR broadcast, in order.
FadeCommands ==
    IF last.fade_time = 0 THEN <<DALI_SET_FADE_TIME, DALI_SET_EXTENDED_FADE_TIME>>
    ELSE <<DALI_SET_FADE_TIME>>

\* After d frames of the DTR broadcast the call sent `commands` to the
\* target, each with send_2_bytes_repeat: all of them if it returned Ok, and
\* up to the one whose transaction failed if not.
FadeSequence(d, commands) ==
    /\ d >= 1
    /\ DtrFrames = 1..d
    /\ \A i \in 1..d :
          /\ last.frames[i][2] = last.fade_time
          /\ i \notin last.twice
          /\ i < d => is_collision(last.frames[i][3])
    /\ Len(last.frames) - d <= Len(commands)
    /\ \A i \in (d + 1)..Len(last.frames) :
          /\ last.frames[i][1] = TargetByte
          /\ last.frames[i][2] = commands[i - d]
          /\ i \in last.twice
    /\ last.ok => Len(last.frames) - d = Len(commands)
    /\ ~last.ok =>
          \/ last.frames[Len(last.frames)][3] = TransportErr
          \/ Len(last.frames) = d /\ is_collision(last.frames[d][3])

\* C32: for a target in range, a fade time of at most 15 is sent as a DTR
\* broadcast carrying it, then SET_FADE_TIME (send-twice) to the target,
\* then SET_EXTENDED_FADE_TIME (send-twice) if and only if the fade time is
\* 0; a failed transaction ends the sequence where it fails.  A fade time
\* above 15 fails with FadeTime and no frame is sent.
C32_FadeTimeFrames ==
    (IsFadeCall /\ TargetInRange) =>
        IF last.fade_time > 15
        THEN ~last.ok /\ last.e = "FadeTime" /\ last.frames = << >>
        ELSE FadeSequence(Cardinality(DtrFrames), FadeCommands)

\* C32: fade time 0 for a light: DTR, SET_FADE_TIME, SET_EXTENDED_FADE_TIME.
C32_Witness ==
    /\ last.call = "set_light_fade_time"
    /\ last.ok
    /\ last.fade_time = 0
    /\ Len(last.frames) = 3
    /\ last.frames[3][2] = DALI_SET_EXTENDED_FADE_TIME
    /\ last.twice = {2, 3}

\* C32: fade time 15 for a group, the DTR broadcast sent again after a
\* collision: DTR, DTR, SET_FADE_TIME.
C32_WitnessGroup ==
    /\ last.call = "set_group_fade_time"
    /\ last.ok
    /\ last.fade_time = 15
    /\ Len(last.frames) = 3
    /\ last.frames[3] = <<131, DALI_SET_FADE_TIME, RNone>>
    /\ last.twice = {3}

\* C32: fade time 16 is refused.
C32_WitnessRefused ==
    /\ IsFadeCall /\ TargetInRange
    /\ last.fade_time = 16
    /\ last.e = "FadeTime"

----------------------------------------------------------------------------
(* What one call of find_next_device yields.                               *)

IsFindNextCall == last.call = "find_next_device"

\* The decision that starts with the COMPARE at d is true: the COMPARE, or
\* one of the up to CompareRetries that repeat it, is answered.
DecisionTrue(d) ==
    \E k \in d..(d + CompareRetries) :
        /\ k <= Len(last.frames)
        /\ \A j \in d..k : IsCompare(last.frames[j])
        /\ last.frames[k][3] # RNone

\* The decisions that move the search address: all but the twenty-fifth,
\* whose result find_next_device does not look at.
Deciding(decisions) ==
    {d \in decisions : Cardinality({x \in decisions : x < d}) < 24}

\* The last frame of the last call is a broadcast of TERMINATE.
EndsWithTerminate ==
    /\ last.frames # << >>
    /\ last.frames[Len(last.frames)][1] = DALI_TERMINATE - 256
    /\ last.frames[Len(last.frames)][2] = 0

\* What a call that returned yields, given the decisions that were true.
Yields(answered) ==
    /\ last.found = -1 <=> answered = {}
    /\ last.found = -1 => EndsWithTerminate /\ last.counter = last.target
    /\ last.found # -1 =>
          /\ last.found = last.target
          /\ last.counter = last.target + 1
          /\ IsCompare(last.frames[Len(last.frames)])

\* C33 as stated: the end of the sequence is yielded exactly when no
\* COMPARE of the search is answered.
C33_NoCompareAnswered ==
    (IsFindNextCall /\ last.ok) =>
        Yields({i \in 1..Len(last.frames) :
                   IsCompare(last.frames[i]) /\ last.frames[i][3] # RNone})

\* C33: find_next_device yields the end of the sequence exactly when none
\* of the 24 decisions that move the search address is true, the search
\* address ending above 0xFFFFFF; its last frame is then a broadcast of
\* TERMINATE.  Otherwise it yields the iterator's short address counter and
\* increments it by one.  The COMPARE sent after the search address was
\* raised above 0xFFFFFF does not count.
C33_EndOfSequence ==
    (IsFindNextCall /\ last.ok) =>
        Yields({d \in Deciding(Decisions(0, CallEnd(0))) : DecisionTrue(d)})

\* C33: no COMPARE is answered and the sequence ends.
C33_Witness ==
    /\ IsFindNextCall /\ last.ok
    /\ last.found = -1
    /\ Cardinality(Decisions(0, CallEnd(0))) = 25
    /\ \A i \in 1..Len(last.frames) : last.frames[i][3] = RNone

\* C33: the third COMPARE of the last deciding decision is answered, and
\* the counter is yielded.
C33_WitnessFound ==
    /\ IsFindNextCall /\ last.ok
    /\ last.found = 1 /\ last.counter = 2
    /\ Cardinality(Decisions(0, CallEnd(0))) = 24
    /\ Cardinality({i \in 1..Len(last.frames) : last.frames[i][3] # RNone}) = 1

\* C33: only the twenty-fifth decision is answered, and the sequence ends.
C33_WitnessIgnored ==
    /\ IsFindNextCall /\ last.ok
    /\ last.found = -1
    /\ \E i \in 1..Len(last.frames) :
          IsCompare(last.frames[i]) /\ last.frames[i][3] = Value8(255)

----------------------------------------------------------------------------
(* MatchGroup that fails at a channel.                                     *)

\* Short address a is listed in group g of the bus.
IsMemberOf(b, g, a) ==
    \E i \in 1..Len(b.groups) :
        /\ b.groups[i].group_address = g
        /\ \E m \in 1..Len(b.groups[i].members) : b.groups[i].members[m] = a

\* The last command reached DaliManager::match_group with a pattern that
\* compiles and failed: an add or a remove failed on the device.
MatchFailedOnDevice ==
    /\ last.cmd = "MatchGroup"
    /\ last.outcome = "err"
    /\ OnBus
    /\ last.before[last.bus + 1].status = "Active"
    /\ RegexCompiles(last.text)

\* The frames of the last command addressed to short address a.
FramesTo(a) == {i \in 1..Len(last.frames) : last.frames[i][1] = 2 * a + 1}

\* The call failed at channel f of `channels`: the channels before f are
\* members of group g in `after` exactly if they match, those that were
\* changed after a read of the membership mask that the ballast answered;
\* channel f needed a change, the last frame was for it and it is listed
\* as before; no frame was sent to a later channel, listed as before.
FailedAt(f, channels, before, after, g) ==
    /\ IsMemberOf(before, g, channels[f].short_address)
          # Matches(channels[f].description)
    /\ Len(last.frames) \in FramesTo(channels[f].short_address)
    /\ \A j \in 1..Len(channels) :
          IF j < f
          THEN /\ IsMemberOf(after, g, channels[j].short_address)
                     <=> Matches(channels[j].description)
               /\ IsMemberOf(after, g, channels[j].short_address)
                     # IsMemberOf(before, g, channels[j].short_address)
                  => \E q \in FramesTo(channels[j].short_address) :
                        /\ last.frames[q][2] = DALI_QUERY_GROUPS_8_15
                        /\ last.frames[q][3].k = "Value8"
          ELSE /\ IsMemberOf(after, g, channels[j].short_address)
                     <=> IsMemberOf(before, g, channels[j].short_address)
               /\ j > f => FramesTo(channels[j].short_address) = {}

\* C34: a MatchGroup that fails on the device fails at one channel: the
\* member list of the group holds the changes made and verified for the
\* channels before it and no other, no frame is sent to a later channel,
\* and the channels and the other groups of the model are as they were.
C34_FailsAtChannel ==
    MatchFailedOnDevice =>
        /\ buses[last.bus + 1].channels = last.before[last.bus + 1].channels
        /\ \A i \in 1..Len(last.before[last.bus + 1].groups) :
              last.before[last.bus + 1].groups[i].group_address # last.group
                 => buses[last.bus + 1].groups[i] = last.before[last.bus + 1].groups[i]
        /\ \E f \in 1..Len(buses[last.bus + 1].channels) :
              FailedAt(f, buses[last.bus + 1].channels, last.before[last.bus + 1],
                       buses[last.bus + 1], last.group)

\* C34: channel 0 was removed from group 0 and the removal verified, then
\* the add of channel 1 failed: the group has no member.
C34_Witness ==
    /\ MatchFailedOnDevice
    /\ last.group = 0
    /\ StatusIs("GroupAddFailed")
    /\ IsMemberOf(last.before[last.bus + 1], 0, 0)
    /\ ~IsMemberOf(buses[last.bus + 1], 0, 0)
    /\ ~IsMemberOf(buses[last.bus + 1], 0, 1)
    /\ FramesTo(0) # {} /\ FramesTo(1) # {}

\* C34: the first change failed on the emulator, whose ballasts answer no
\* query.
C34_WitnessFirst ==
    /\ MatchFailedOnDevice
    /\ transport = "emulator"
    /\ StatusIs("NoResult")
    /\ FramesTo(0) # {} /\ FramesTo(1) = {}

----------------------------------------------------------------------------
(* The turns of the search.                                                *)

\* The last turn of a search on the emulator.
EmulatedSearch == transport = "emulator" /\ last.cmd \in FindKinds

\* Ballast i took part in the search before the last turn, was selected by
\* its last COMPARE, was given the byte that PROGRAM SHORT ADDRESS carried
\* for short address a and has withdrawn.
TookAddress(i, a) ==
    /\ last.ballasts[1][i].enable_compare
    /\ lights[1][i].selected
    /\ lights[1][i].random_address = lights[1][i].search_address
    /\ lights[1][i].short_address = 2 * a + 1
    /\ ~lights[1][i].enable_compare

\* C35: whenever find_next_device yields a device on the emulator, a
\* ballast that takes part in the search is selected, its random address
\* the final search address; PROGRAM SHORT ADDRESS gives it the address and
\* WITHDRAW takes it out of the search.
C35_YieldedDeviceIsSelected ==
    (EmulatedSearch /\ last.found # -1) =>
        \E i \in 1..Len(lights[1]) : TookAddress(i, last.found)

\* The channels the last command has pushed so far.
Pushed ==
    Len(buses[1].channels)
       - (IF last.cmd = "FindNewLights" THEN Len(last.before[1].channels) ELSE 0)

\* C36: a search on the emulator does not run out of short addresses, and
\* takes at most one turn per ballast before the sequence ends.
C36_DiscoveryTerminates ==
    EmulatedSearch =>
        /\ session # "aborted"
        /\ Pushed <= Len(lights[1])

\* C37: PROGRAM SHORT ADDRESS changes the short address only of a ballast
\* that takes part in the search, and when FindAllLights has ended, ballasts
\* with distinct random addresses hold distinct short addresses, as many as
\* the model has channels.
C37_OnlySelectedProgrammed ==
    EmulatedSearch =>
        /\ \A i \in 1..Len(lights[1]) :
              lights[1][i].short_address # last.ballasts[1][i].short_address
                 => last.ballasts[1][i].enable_compare
        /\ (last.cmd = "FindAllLights" /\ last.outcome = "ok") =>
              /\ \A i, j \in 1..Len(lights[1]) :
                    lights[1][i].random_address # lights[1][j].random_address
                       => lights[1][i].short_address # lights[1][j].short_address
              /\ Cardinality({lights[1][i].random_address : i \in 1..Len(lights[1])})
                    = Len(buses[1].channels)

----------------------------------------------------------------------------
(* FindNewLights.                                                          *)

\* The short addresses of the first k channels.
UsedBy(channels, k) == {channels[j].short_address : j \in 1..k}

\* Channel k carries the smallest short address that no channel before it
\* has.
SmallestUnused(channels, k) ==
    /\ channels[k].short_address \in 0..63
    /\ channels[k].short_address \notin UsedBy(channels, k - 1)
    /\ \A a \in 0..(channels[k].short_address - 1) : a \in UsedBy(channels, k - 1)

C40_WitnessAddressed ==
    /\ last.cmd = "FindNewLights"
    /\ last.outcome = "ok"
    /\ transport = "emulator"
    /\ Len(lights[1]) = 2
    /\ lights[1][1].short_address = 0 /\ lights[1][2].short_address = 1
    /\ lights[1][1].random_address # 4095
    /\ buses[1].channels = last.before[1].channels

\* C40: FindNewLights gives the two ballasts of a new emulator addresses.
C40_WitnessNew ==
    /\ last.cmd = "FindNewLights"
    /\ last.outcome = "ok"
    /\ transport = "emulator"
    /\ last.before[1].channels = << >>
    /\ Len(buses[1].channels) = 2

----------------------------------------------------------------------------
(* program_short_address.                                                  *)

\* C38: program_short_address returns for every sequence of replies of the
\* transport: the loop that broadcasts WITHDRAW does not go on for ever.
C38_WithdrawLoopEnds ==
    last.call = "program_short_address" => last.e # "hang"

----------------------------------------------------------------------------
(* The groups of the model and the group masks of the ballasts.            *)

GroupCommands ==
    {"AddToGroup", "RemoveFromGroup", "MatchGroup", "RemoveGroup", "RemoveShortAddress"}

\* Every channel of the configuration `bs` has a ballast in `ls`, and bit g
\* of the group mask of the ballast with the channel's short address is set
\* exactly if the channel is listed as a member of group g.
Agrees(bs, ls) ==
    \A b \in 1..Len(bs) : \A k \in 1..Len(bs[b].channels) :
        LET a == bs[b].channels[k].short_address
        IN  /\ \E l \in 1..Len(ls[b]) : ls[b][l].short_address = a
            /\ \A l \in 1..Len(ls[b]) : \A g \in 0..15 :
                  ls[b][l].short_address = a
                     => (BitSet(ls[b][l].group_mask, g) <=> IsMemberOf(bs[b], g, a))

\* The last command is one of the group commands and succeeded on the
\* emulator, where model and ballasts agreed before it.
GroupCommandDone ==
    /\ transport = "emulator"
    /\ last.cmd \in GroupCommands
    /\ last.outcome = "ok"
    /\ Agrees(last.before, last.ballasts)

=============================================================================
